---------------------------- MODULE Spec2Model ----------------------------
(***************************************************************************)
(* The analysis-and-recommendation engine of the backend:                  *)
(*   services/analyzerService.ts        (normalizeTask .. quickAnalyze)    *)
(*   services/recommendationService.ts  (scoreFeature ..                   *)
(*                                       generateRecommendations)          *)
(* Strings are TLA+ strings; the text functions work on their characters   *)
(* (Chars) so that case folding, normalisation and the word-boundary       *)
(* regular expressions are computed, not assumed.                          *)
(***************************************************************************)
EXTENDS Integers, Sequences, FiniteSets, TLC

VARIABLES
  categoriesData,   \* analyzerService.ts: the parsed categories.json
  featuresData,     \* recommendationService.ts: the parsed features.json
  task,             \* the task description of the request being served
  analysis,         \* what analyzeTask(task) returned, or NoValue
  quick,            \* what quickAnalyze(task) returned, or NoValue
  result,           \* what generateRecommendations(analysis) returned, or NoValue
  earlier,          \* the results of one earlier request, or NoValue
  request,          \* the HTTP request a route handler was given, or NoValue
  response,         \* the HTTP response it sent, or NoValue
  inflight          \* the concurrent requests: of each its task and what it got so far

vars == <<categoriesData, featuresData, task, analysis, quick, result, earlier,
          request, response, inflight>>

\* what the HTTP routes and the concurrent requests add to the state
serving == <<request, response, inflight>>

NoValue == [none |-> TRUE]

-----------------------------------------------------------------------------
(* Evaluation helpers.  TLC evaluates the argument of an operator and the  *)
(* body of a LET definition again at every use; bind hands a value that is *)
(* computed once to the body that uses it, as a const declaration does,    *)
(* and array turns a function over 1..n into the tuple of its values.      *)

bind(v, f(_)) == CHOOSE r \in {f(x) : x \in {v}} : TRUE

array(f) == f \o <<>>

Range(seq) == {seq[i] : i \in DOMAIN seq}

\* the elements of seq at the indices keep(i) holds for, in order
selectByIndex(seq, keep(_)) ==
  bind(SelectSeq([i \in DOMAIN seq |-> i], keep),
       LAMBDA idx : array([k \in DOMAIN idx |-> seq[idx[k]]]))

\* [...new Set(seq)]: the first occurrence of every element, in order
dedupe(seq) ==
  selectByIndex(seq, LAMBDA i : \A j \in 1..(i - 1) : seq[j] # seq[i])

\* [].concat(...seqs)
RECURSIVE flattenFrom(_, _)
flattenFrom(seqs, k) ==
  IF k > Len(seqs) THEN <<>> ELSE seqs[k] \o flattenFrom(seqs, k + 1)

flatten(seqs) == flattenFrom(seqs, 1)

\* a slice that cuts nothing
slice_all(seq, n) == seq

\* Array.prototype.slice(0, n)
slice(seq, n) == SubSeq(seq, 1, IF Len(seq) < n THEN Len(seq) ELSE n)

\* a sort that is not stable: elements of equal score come out in reverse
sortByScore_tiesReversed(seq) ==
  bind(array([i \in DOMAIN seq |->
                Cardinality({j \in DOMAIN seq :
                   \/ seq[j].score > seq[i].score
                   \/ seq[j].score = seq[i].score /\ j > i}) + 1]),
       LAMBDA rank :
         array([k \in DOMAIN seq |-> seq[CHOOSE i \in DOMAIN seq : rank[i] = k]]))

\* the sort with the comparison turned round: lowest score first
sortByScore_ascending(seq) ==
  bind(array([i \in DOMAIN seq |->
                Cardinality({j \in DOMAIN seq :
                   \/ seq[j].score < seq[i].score
                   \/ seq[j].score = seq[i].score /\ j < i}) + 1]),
       LAMBDA rank :
         array([k \in DOMAIN seq |-> seq[CHOOSE i \in DOMAIN seq : rank[i] = k]]))

\* Array.prototype.sort((a, b) => b.score - a.score).  The sort is stable
\* (ECMAScript 2019): element i ends after every element of a higher score
\* and after the earlier elements of the same score.
sortByScore(seq) ==
  bind(array([i \in DOMAIN seq |->
                Cardinality({j \in DOMAIN seq :
                   \/ seq[j].score > seq[i].score
                   \/ seq[j].score = seq[i].score /\ j < i}) + 1]),
       LAMBDA rank :
         array([k \in DOMAIN seq |-> seq[CHOOSE i \in DOMAIN seq : rank[i] = k]]))

-----------------------------------------------------------------------------
(* Characters and strings                                                  *)

LowerStr == "abcdefghijklmnopqrstuvwxyz"
UpperStr == "ABCDEFGHIJKLMNOPQRSTUVWXYZ"
DigitStr == "0123456789"

Chars(s) == array([i \in 1..Len(s) |-> SubSeq(s, i, i)])

CharSet(s) == {SubSeq(s, i, i) : i \in 1..Len(s)}

\* the string made of the pieces cs[lo], ..., cs[hi]
RECURSIVE joinRange(_, _, _)
joinRange(cs, lo, hi) ==
  IF lo > hi THEN ""
  ELSE IF lo = hi THEN cs[lo]
       ELSE joinRange(cs, lo, (lo + hi) \div 2) \o joinRange(cs, (lo + hi) \div 2 + 1, hi)

\* Array.prototype.join('')
Join(cs) == joinRange(cs, 1, Len(cs))

\* \w of a JavaScript regular expression without the u flag: [A-Za-z0-9_]
WordChars == CharSet(LowerStr) \cup CharSet(UpperStr) \cup CharSet(DigitStr) \cup {"_"}

\* \s of a JavaScript regular expression (the members a task can hold here)
WhiteSpace == {" ", "\t", "\n", "\r"}

\* [\w\s-]: what the first replace of normalizeTask keeps
KeptChars == WordChars \cup WhiteSpace \cup {"-"}

\* the characters escapeRegex puts a backslash before: [.*+?^${}()|[\]\\]
RegexMeta == {".", "*", "+", "?", "^", "$", "{", "}", "(", ")", "|", "[", "]", "\\"}

UpperChars == CharSet(UpperStr)

\* the lower-case letter of every capital
LowerOf ==
  [c \in UpperChars |->
     LET i == CHOOSE k \in 1..Len(UpperStr) : SubSeq(UpperStr, k, k) = c
     IN  SubSeq(LowerStr, i, i)]

toLowerCaseChar(c) == IF c \in UpperChars THEN LowerOf[c] ELSE c

\* the characters of s.toLowerCase()
lowerChars(s) == array([i \in 1..Len(s) |-> toLowerCaseChar(SubSeq(s, i, i))])

\* String.prototype.toLowerCase
toLowerCase(s) == bind(lowerChars(s), Join)

\* String.prototype.includes (case-sensitive substring)
includes(s, sub) ==
  \E p \in 0..(Len(s) - Len(sub)) : SubSeq(s, p + 1, p + Len(sub)) = sub

\* String.prototype.trim, on the characters
trimChars(cs) ==
  bind({i \in DOMAIN cs : cs[i] \notin WhiteSpace},
       LAMBDA solid :
         IF solid = {} THEN <<>>
         ELSE SubSeq(cs, CHOOSE i \in solid : \A j \in solid : i <= j,
                         CHOOSE i \in solid : \A j \in solid : i >= j))

trim(s) == bind(Chars(s), LAMBDA cs : bind(trimChars(cs), Join))

\* the first replace left out: every character is kept
replaceSpecial_none(cs) == cs

\* .replace(/[^\w\s-]/g, ' ')
replaceSpecial(cs) ==
  array([i \in DOMAIN cs |-> IF cs[i] \in KeptChars THEN cs[i] ELSE " "])

\* the second replace left out: runs of whitespace stay as they are
collapseWhitespace_none(cs) == cs

\* .replace(/\s+/g, ' '): every maximal run of whitespace becomes one space
collapseWhitespace(cs) ==
  bind(selectByIndex(cs, LAMBDA i : ~(cs[i] \in WhiteSpace /\ i > 1 /\ cs[i - 1] \in WhiteSpace)),
       LAMBDA firsts :
         array([i \in DOMAIN firsts |-> IF firsts[i] \in WhiteSpace THEN " " ELSE firsts[i]]))

normalizeTask(t) ==
  bind(lowerChars(t), LAMBDA lower :
  bind(replaceSpecial(lower), LAMBDA replaced :
  bind(collapseWhitespace(replaced), LAMBDA collapsed :
  bind(trimChars(collapsed), Join))))

-----------------------------------------------------------------------------
(* Regular expressions: the two shapes the engine builds,                  *)
(*   new RegExp(`\\b${escapeRegex(word)}\\b`, 'i')   (hasWholeWord)        *)
(*   new RegExp(`\\b(${pattern.pattern})\\b`, 'i')   (detectPatterns)      *)
(* The body between the two \b is read as the engine reads it: a backslash *)
(* makes the next character a literal, an unescaped | separates            *)
(* alternatives, every other character stands for itself.                  *)

escapeRegex(str) ==
  bind(array([i \in 1..Len(str) |->
                IF SubSeq(str, i, i) \in RegexMeta
                THEN "\\" \o SubSeq(str, i, i)
                ELSE SubSeq(str, i, i)]),
       Join)

\* cs[i] is a backslash that makes cs[i+1] a literal: it ends an odd run of
\* backslashes and is not the last character
isEscape(cs, i) ==
  /\ i >= 1
  /\ cs[i] = "\\"
  /\ i < Len(cs)
  /\ Cardinality({j \in 1..i : \A m \in j..i : cs[m] = "\\"}) % 2 = 1

\* the alternatives of a pattern body, each the sequence of its literal characters
regexAlternatives(cs) ==
  bind(SelectSeq([i \in DOMAIN cs |-> i],
                 LAMBDA i : cs[i] = "|" /\ ~isEscape(cs, i - 1)),
       LAMBDA bars :
         bind(<<0>> \o bars \o <<Len(cs) + 1>>,
              LAMBDA cuts :
                array([k \in 1..(Len(cuts) - 1) |->
                         selectByIndex(cs, LAMBDA i : /\ cuts[k] < i
                                                      /\ i < cuts[k + 1]
                                                      /\ ~isEscape(cs, i))])))

\* \b between the characters p and p+1 of cs (p = 0: the start, p = Len: the end)
wordBoundary(cs, p) ==
  ((p >= 1 /\ cs[p] \in WordChars) # (p < Len(cs) /\ cs[p + 1] \in WordChars))

\* the test without the two \b: the body anywhere in the text
wholeWordRegexTest_anywhere(body, text) ==
  \E cs \in {lowerChars(text)}, pattern \in {lowerChars(body)} :
    \E alts \in {regexAlternatives(pattern)} :
      \E a \in DOMAIN alts :
        \E p \in 0..(Len(cs) - Len(alts[a])) :
          SubSeq(cs, p + 1, p + Len(alts[a])) = alts[a]

\* regex.test(text) for /\b(body)\b/i
wholeWordRegexTest(body, text) ==
  \E cs \in {lowerChars(text)}, pattern \in {lowerChars(body)} :
    \E alts \in {regexAlternatives(pattern)} :
      \E a \in DOMAIN alts :
        \E p \in 0..(Len(cs) - Len(alts[a])) :
          /\ wordBoundary(cs, p)
          /\ SubSeq(cs, p + 1, p + Len(alts[a])) = alts[a]
          /\ wordBoundary(cs, p + Len(alts[a]))

hasWholeWord(text, word) ==
  \E w \in {word} : \E body \in {escapeRegex(w)} : wholeWordRegexTest(body, text)

-----------------------------------------------------------------------------
(* analyzerService.ts                                                      *)

MIN_CATEGORY_SCORE == 10

lowerAll(keywords) == array([i \in DOMAIN keywords |-> toLowerCase(keywords[i])])

\* an extractor that tests the keywords of the first category only
extractKeywords_firstCategory(normalizedTask) ==
  bind(lowerAll(categoriesData.categories[1].keywords), LAMBDA listed :
  bind(dedupe(listed), LAMBDA allKeywords :
  bind(SelectSeq(allKeywords, LAMBDA keyword : hasWholeWord(normalizedTask, keyword)),
       dedupe)))

extractKeywords(normalizedTask) ==
  bind(array([c \in DOMAIN categoriesData.categories |->
                lowerAll(categoriesData.categories[c].keywords)]), LAMBDA lists :
  bind(flatten(lists), LAMBDA listed :
  bind(dedupe(listed), LAMBDA allKeywords :
  bind(SelectSeq(allKeywords, LAMBDA keyword : hasWholeWord(normalizedTask, keyword)),
       dedupe))))

\* the second loop without its test of matchedKeywords: every category
\* keyword found in the task text is pushed
matchTextKeywords_again(categoryKeywords, normalizedTask, matchedKeywords) ==
  SelectSeq(categoryKeywords, LAMBDA catKeyword : hasWholeWord(normalizedTask, catKeyword))

\* the second loop of matchCategories: the category keywords found in the
\* task text that are not among the matched ones yet, each pushed once
matchTextKeywords(categoryKeywords, normalizedTask, matchedKeywords) ==
  bind(SelectSeq(categoryKeywords,
         LAMBDA catKeyword : /\ catKeyword \notin Range(matchedKeywords)
                             /\ hasWholeWord(normalizedTask, catKeyword)),
       dedupe)

\* the +15 of a category whose name or id appears in the task
nameBonus(category, normalizedTask) ==
  IF \/ hasWholeWord(normalizedTask, toLowerCase(category.name))
     \/ hasWholeWord(normalizedTask, toLowerCase(category.id))
  THEN 15 ELSE 0

\* the body of the forEach over the categories: one category's entry
matchCategory(category, normalizedTask, keywords) ==
  bind(lowerAll(category.keywords), LAMBDA categoryKeywords :
  bind(SelectSeq(keywords, LAMBDA keyword : keyword \in Range(categoryKeywords)),
       LAMBDA direct :
  bind(matchTextKeywords(categoryKeywords, normalizedTask, direct), LAMBDA inText :
    [category |-> category,
     score |-> 10 * Len(direct) + 5 * Len(inText) + nameBonus(category, normalizedTask),
     matchedKeywords |-> direct \o inText])))

\* the filter without a threshold, and with a strict one
isCategoryIncluded_any(score) == score >= 0

isCategoryIncluded_above(score) == score > MIN_CATEGORY_SCORE

isCategoryIncluded(score) == score >= MIN_CATEGORY_SCORE

matchCategories(normalizedTask, keywords) ==
  bind(array([c \in DOMAIN categoriesData.categories |->
                matchCategory(categoriesData.categories[c], normalizedTask, keywords)]),
       LAMBDA entries :
  bind(SelectSeq(entries, LAMBDA e : isCategoryIncluded(e.score)), sortByScore))

detectPatterns(normalizedTask) ==
  SelectSeq(categoriesData.taskPatterns,
            LAMBDA pattern : wholeWordRegexTest(pattern.pattern, normalizedTask))

countHits(words, normalizedTask) ==
  Cardinality({i \in DOMAIN words : hasWholeWord(normalizedTask, words[i])})

\* the decision rule with the moderate/simple tie given to 'simple'
complexityOf_strictTie(simpleScore, moderateScore, complexScore) ==
  IF 4 * complexScore >= 3 * moderateScore /\ 4 * complexScore >= 2 * simpleScore
  THEN "complex"
  ELSE IF 3 * moderateScore > 2 * simpleScore THEN "moderate" ELSE "simple"

\* the weighted totals are doubled (1, 1.5, 2 become 2, 3, 4) to stay in the integers
complexityOf(simpleScore, moderateScore, complexScore) ==
  \* totalSimple = 2 * simpleScore, totalModerate = 3 * moderateScore,
  \* totalComplex = 4 * complexScore
  IF 4 * complexScore >= 3 * moderateScore /\ 4 * complexScore >= 2 * simpleScore
  THEN "complex"
  ELSE IF 3 * moderateScore >= 2 * simpleScore THEN "moderate" ELSE "simple"

determineComplexity(normalizedTask) ==
  bind(countHits(categoriesData.complexityIndicators.simple, normalizedTask),
       LAMBDA simpleScore :
  bind(countHits(categoriesData.complexityIndicators.moderate, normalizedTask),
       LAMBDA moderateScore :
  bind(countHits(categoriesData.complexityIndicators.complex, normalizedTask),
       LAMBDA complexScore :
    complexityOf(simpleScore, moderateScore, complexScore))))

\* [...boostFeatureTypes]: the boost entries of the patterns, first occurrences
\* the boosts of the first matched pattern only
collectBoosts_firstPattern(patterns) ==
  IF patterns = <<>> THEN <<>> ELSE dedupe(patterns[1].boost)

collectBoosts(patterns) ==
  bind(array([p \in DOMAIN patterns |-> patterns[p].boost]), LAMBDA lists :
  bind(flatten(lists), dedupe))

\* [...priorityAgents]: the priority agents of the patterns that have any
collectPriorityAgents(patterns) ==
  bind(array([p \in DOMAIN patterns |->
                IF "priorityAgents" \in DOMAIN patterns[p]
                THEN patterns[p].priorityAgents ELSE <<>>]), LAMBDA lists :
  bind(flatten(lists), dedupe))

analyzeTask(taskDescription) ==
  bind(normalizeTask(taskDescription), LAMBDA normalizedTask :
  bind(extractKeywords(normalizedTask), LAMBDA keywords :
  bind(detectPatterns(normalizedTask), LAMBDA patterns :
    [originalTask |-> taskDescription,
     normalizedTask |-> normalizedTask,
     keywords |-> keywords,
     categories |-> matchCategories(normalizedTask, keywords),
     patterns |-> patterns,
     complexity |-> determineComplexity(normalizedTask),
     boostFeatureTypes |-> collectBoosts(patterns),
     priorityAgents |-> collectPriorityAgents(patterns)])))

\* quickAnalyze listing the names of the categories where the code lists ids
quickAnalyze_names(taskDescription) ==
  bind(analyzeTask(taskDescription), LAMBDA r :
  bind(slice(r.categories, 3), LAMBDA top :
    [keywords |-> slice(r.keywords, 10),
     topCategories |-> array([i \in DOMAIN top |-> top[i].category.name]),
     complexity |-> r.complexity]))

quickAnalyze(taskDescription) ==
  bind(analyzeTask(taskDescription), LAMBDA r :
  bind(slice(r.categories, 3), LAMBDA top :
    [keywords |-> slice(r.keywords, 10),
     topCategories |-> array([i \in DOMAIN top |-> top[i].category.id]),
     complexity |-> r.complexity]))

-----------------------------------------------------------------------------
(* recommendationService.ts                                                *)

FeatureTypes == <<"skill", "agent", "mcp", "hook", "command", "setting", "claudemd">>

MIN_FEATURE_SCORE == 15
MIN_PRIORITY_SCORE == 40

\* the copy of hasWholeWord in recommendationService.ts
hasWholeWordInTask(text, word) ==
  \E w \in {word} : \E escaped \in {escapeRegex(w)} : wholeWordRegexTest(escaped, text)

\* signal 1: "Matches keyword", once per extracted keyword the feature lists
keywordReasons(featureKeywords, keywords) ==
  bind(SelectSeq(keywords, LAMBDA keyword : toLowerCase(keyword) \in Range(featureKeywords)),
       LAMBDA hits :
         array([i \in DOMAIN hits |->
                  [points |-> 25, reason |-> "Matches keyword: " \o hits[i]]]))

typeKeyOf(type) == IF type = "claudemd" THEN "claudemd" ELSE type \o "s"

\* categoryDefaults[typeKey]?.includes(feature.id)
isDefaultFeature(categoryDefaults, typeKey, id) ==
  /\ typeKey \in DOMAIN categoryDefaults
  /\ id \in Range(categoryDefaults[typeKey])

\* signal 2 for the best of the matched categories that list the feature only
categoryReasons_bestOnly(feature, type, categories) ==
  bind(SelectSeq([i \in DOMAIN categories |-> i],
         LAMBDA index : isDefaultFeature(categories[index].category.defaultFeatures,
                                         typeKeyOf(type), feature.id)),
       LAMBDA hits :
         IF hits = <<>> THEN <<>>
         ELSE <<[points |-> IF hits[1] = 1 THEN 20 ELSE 10,
                 reason |-> "Recommended for " \o categories[hits[1]].category.name]>>)

\* signal 2: "Recommended for", once per matched category that lists the feature
categoryReasons(feature, type, categories) ==
  bind(SelectSeq([i \in DOMAIN categories |-> i],
         LAMBDA index : isDefaultFeature(categories[index].category.defaultFeatures,
                                         typeKeyOf(type), feature.id)),
       LAMBDA hits :
         array([k \in DOMAIN hits |->
                  [points |-> IF hits[k] = 1 THEN 20 ELSE 10,
                   reason |-> "Recommended for " \o categories[hits[k]].category.name]]))

\* signal 3: "Matches task pattern"
patternReasons(type, boostFeatureTypes) ==
  IF (type \o "s") \in Range(boostFeatureTypes) \/ type \in Range(boostFeatureTypes)
  THEN <<[points |-> 10, reason |-> "Matches task pattern"]>>
  ELSE <<>>

\* signal 4 with a third of its weight
priorityReasons_weak(feature, priorityAgents) ==
  IF feature.id \in Range(priorityAgents)
  THEN <<[points |-> 10, reason |-> "Priority for this task type"]>>
  ELSE <<>>

\* signal 4: "Priority for this task type"
priorityReasons(feature, priorityAgents) ==
  IF feature.id \in Range(priorityAgents)
  THEN <<[points |-> 30, reason |-> "Priority for this task type"]>>
  ELSE <<>>

\* signal 5 without its test of the extracted keywords
mentionReasons_again(featureKeywords, a) ==
  bind(SelectSeq(featureKeywords,
         LAMBDA keyword : /\ Len(keyword) >= 3
                          /\ hasWholeWordInTask(a.normalizedTask, keyword)),
       LAMBDA hits :
         array([i \in DOMAIN hits |->
                  [points |-> 10, reason |-> "Task mentions: " \o hits[i]]]))

\* signal 5: "Task mentions", once per feature keyword of 3+ characters found
\* in the task text that is not an extracted keyword
mentionReasons(featureKeywords, a) ==
  bind(SelectSeq(featureKeywords,
         LAMBDA keyword : /\ Len(keyword) >= 3
                          /\ hasWholeWordInTask(a.normalizedTask, keyword)
                          /\ keyword \notin Range(a.keywords)),
       LAMBDA hits :
         array([i \in DOMAIN hits |->
                  [points |-> 10, reason |-> "Task mentions: " \o hits[i]]]))

RECURSIVE sumPointsFrom(_, _)
sumPointsFrom(fired, k) ==
  IF k > Len(fired) THEN 0 ELSE fired[k].points + sumPointsFrom(fired, k + 1)

sumPoints(fired) == sumPointsFrom(fired, 1)

\* scoreFeature with signal 4 for agents only
scoreFeature_agentsOnly(feature, type, a) ==
  bind(lowerAll(feature.keywords), LAMBDA featureKeywords :
  bind(keywordReasons(featureKeywords, a.keywords)
         \o categoryReasons(feature, type, a.categories)
         \o patternReasons(type, a.boostFeatureTypes)
         \o (IF type = "agent" THEN priorityReasons(feature, a.priorityAgents) ELSE <<>>)
         \o mentionReasons(featureKeywords, a),
       LAMBDA fired :
         [score |-> sumPoints(fired),
          reasons |-> array([i \in DOMAIN fired |-> fired[i].reason])]))

scoreFeature(feature, type, a) ==
  bind(lowerAll(feature.keywords), LAMBDA featureKeywords :
  bind(keywordReasons(featureKeywords, a.keywords)
         \o categoryReasons(feature, type, a.categories)
         \o patternReasons(type, a.boostFeatureTypes)
         \o priorityReasons(feature, a.priorityAgents)
         \o mentionReasons(featureKeywords, a),
       LAMBDA fired :
         [score |-> sumPoints(fired),
          reasons |-> array([i \in DOMAIN fired |-> fired[i].reason])]))

getFeaturesByType(type) ==
  IF typeKeyOf(type) \in DOMAIN featuresData THEN featuresData[typeKeyOf(type)] ELSE <<>>

\* the threshold lowered to one +10 contribution
isFeatureIncluded_ten(score) == score >= 10

isFeatureIncluded(score) == score >= MIN_FEATURE_SCORE

\* the priority flag with a strict comparison
isPriorityScore_above(score) == score > MIN_PRIORITY_SCORE

isPriorityScore(score) == score >= MIN_PRIORITY_SCORE

\* the ScoredFeature recommendFeatureType pushes for a feature
scoredFeature(feature, type, a) ==
  bind(scoreFeature(feature, type, a), LAMBDA s :
    [feature |-> feature,
     type |-> type,
     score |-> s.score,
     matchReasons |-> s.reasons,
     isPriority |-> isPriorityScore(s.score)])

\* recommendFeatureType without its slice: every feature that passes is returned
recommendFeatureType_uncut(type, a, maxResults) ==
  bind(getFeaturesByType(type), LAMBDA features :
  bind(array([i \in DOMAIN features |-> scoredFeature(features[i], type, a)]),
       LAMBDA all :
  bind(SelectSeq(all, LAMBDA r : isFeatureIncluded(r.score)), sortByScore)))

recommendFeatureType(type, a, maxResults) ==
  bind(getFeaturesByType(type), LAMBDA features :
  bind(array([i \in DOMAIN features |-> scoredFeature(features[i], type, a)]),
       LAMBDA all :
  bind(SelectSeq(all, LAMBDA r : isFeatureIncluded(r.score)), LAMBDA scored :
  bind(sortByScore(scored), LAMBDA sorted : slice(sorted, maxResults)))))

\* the quick-win test without the score
isQuickWin_anyScore(r) ==
  \/ r.feature.source = "built-in"
  \/ r.type = "command"
  \/ includes(r.feature.installCommand, "Built-in")

isQuickWin(r) ==
  /\ r.score >= 30
  /\ \/ r.feature.source = "built-in"
     \/ r.type = "command"
     \/ includes(r.feature.installCommand, "Built-in")

\* topPriority without the sort: the first five priority entries as collected
topPriorityOf_unsorted(allRecommendations) ==
  bind(SelectSeq(allRecommendations, LAMBDA r : r.isPriority), LAMBDA kept :
    slice(kept, 5))

\* .filter(r => r.isPriority).sort((a, b) => b.score - a.score).slice(0, 5)
topPriorityOf(allRecommendations) ==
  bind(SelectSeq(allRecommendations, LAMBDA r : r.isPriority), LAMBDA kept :
  bind(sortByScore(kept), LAMBDA sorted : slice(sorted, 5)))

\* .filter(isQuickWin).sort((a, b) => b.score - a.score).slice(0, 3)
quickWinsOf(allRecommendations) ==
  bind(SelectSeq(allRecommendations, isQuickWin), LAMBDA kept :
  bind(sortByScore(kept), LAMBDA sorted : slice(sorted, 3)))

generateRecommendations(a) ==
  bind(array([t \in DOMAIN FeatureTypes |-> recommendFeatureType(FeatureTypes[t], a, 5)]),
       LAMBDA byType :
  bind(flatten(byType), LAMBDA allRecommendations :
  bind(slice(a.categories, 3), LAMBDA top :
    [analysis |->
       [task |-> a.originalTask,
        complexity |-> a.complexity,
        topCategories |-> array([i \in DOMAIN top |-> top[i].category.name]),
        detectedKeywords |-> slice(a.keywords, 10)],
     recommendations |->
       [skills |-> byType[1], agents |-> byType[2], mcps |-> byType[3],
        hooks |-> byType[4], commands |-> byType[5], settings |-> byType[6],
        claudemd |-> byType[7]],
     summary |->
       [totalRecommendations |-> Len(allRecommendations),
        topPriority |-> topPriorityOf(allRecommendations),
        quickWins |-> quickWinsOf(allRecommendations)]])))

-----------------------------------------------------------------------------
(* The static catalogs.  categories.json and features.json are data files  *)
(* read once at start-up; the engine is checked against two catalogs of    *)
(* the shapes TaskCategory, TaskPattern and Feature.                       *)

Category(id, name, keywords, defaultFeatures) ==
  [id |-> id, name |-> name, description |-> name \o " tasks",
   keywords |-> keywords, defaultFeatures |-> defaultFeatures]

Feature(id, name, source, installCommand, category, keywords) ==
  [id |-> id, name |-> name, description |-> name \o " for " \o category,
   whenToUse |-> "Use for " \o category, installCommand |-> installCommand,
   source |-> source, category |-> category, keywords |-> keywords]

\* A catalog in the style of the README's walk-through ("Build a React
\* dashboard with user authentication": react, dashboard, authentication;
\* web-frontend, security).  It also holds the irregular entries a JSON file
\* may hold: mixed-case and punctuated keywords, a keyword listed by two
\* categories, a short keyword, a pattern without priorityAgents, a category
\* without some defaultFeatures keys and a feature file without "claudemd".
MainCategories ==
  [categories |-> <<
     Category("web-frontend", "Frontend",
              <<"React", "dashboard", "frontend", "ui">>,
              [agents |-> <<"react-specialist", "frontend-developer">>,
               skills |-> <<"webapp-testing">>,
               commands |-> <<"generate-tests">>]),
     Category("security", "Security",
              <<"authentication", "security", "audit", "auth">>,
              [agents |-> <<"security-auditor">>,
               hooks |-> <<"security-audit">>,
               settings |-> <<"permissions">>]),
     Category("api", "Backend API",
              <<"api", "backend", "rest", "node.js", "endpoints">>,
              [agents |-> <<"backend-architect">>,
               mcps |-> <<"github">>]),
     Category("database", "Database",
              <<"database", "postgresql", "sql">>,
              [mcps |-> <<"postgresql">>]),
     Category("testing", "Testing",
              <<"test", "coverage", "api">>,
              [skills |-> <<"webapp-testing">>,
               commands |-> <<"generate-tests">>]),
     Category("ai-ml", "AI",
              <<"ai", "chatbot", "rag", "c++">>,
              [agents |-> <<"ai-engineer">>])
   >>,
   taskPatterns |-> <<
     [pattern |-> "build|create|implement", boost |-> <<"agents", "skills">>,
      priorityAgents |-> <<"react-specialist">>, description |-> "Creating something new"],
     [pattern |-> "fix|debug|resolve", boost |-> <<"agents">>,
      priorityAgents |-> <<"debugger">>, description |-> "Fixing a problem"],
     [pattern |-> "test|audit", boost |-> <<"commands", "agents">>,
      priorityAgents |-> <<"security-auditor">>, description |-> "Checking quality"],
     [pattern |-> "set up|add", boost |-> <<"settings", "mcps", "claudemd">>,
      description |-> "Configuring a project"]
   >>,
   complexityIndicators |->
     [simple   |-> <<"simple", "quick", "basic", "ai">>,
      moderate |-> <<"api", "dashboard", "authentication">>,
      complex  |-> <<"architecture", "pipeline", "kubernetes">>]]

MainFeatures ==
  [skills |-> <<
     Feature("webapp-testing", "Webapp Testing", "anthropic", "claude skill add webapp-testing",
             "testing", <<"test", "coverage", "webapp">>),
     Feature("pdf", "PDF", "anthropic", "claude skill add pdf", "documents", <<"pdf">>)>>,
   agents |-> <<
     Feature("react-specialist", "React Specialist", "claude-code-templates",
             "npx claude-code-templates --agent react-specialist",
             "web-frontend", <<"react", "frontend", "ui">>),
     Feature("frontend-developer", "Frontend Developer", "claude-code-templates",
             "npx claude-code-templates --agent frontend-developer",
             "web-frontend", <<"frontend", "css">>),
     Feature("security-auditor", "Security Auditor", "claude-code-templates",
             "npx claude-code-templates --agent security-auditor",
             "security", <<"security", "audit", "Authentication">>),
     Feature("debugger", "Debugger", "built-in", "Built-in agent", "debugging",
             <<"debug", "performance", "api">>),
     Feature("backend-architect", "Backend Architect", "claude-code-templates",
             "npx claude-code-templates --agent backend-architect",
             "api", <<"api", "backend", "app", "node.js">>),
     Feature("ai-engineer", "AI Engineer", "claude-code-templates",
             "npx claude-code-templates --agent ai-engineer",
             "ai-ml", <<"ai", "rag", "pip", "app">>)>>,
   mcps |-> <<
     Feature("github", "GitHub", "official", "claude mcp add github", "devops",
             <<"github", "pr", "api">>),
     Feature("postgresql", "PostgreSQL", "official", "claude mcp add postgres", "database",
             <<"postgresql", "database", "sql">>)>>,
   hooks |-> <<
     Feature("security-audit", "Security audit", "custom", "Add to settings.json", "security",
             <<"security", "audit">>)>>,
   commands |-> <<
     Feature("generate-tests", "/generate-tests", "claude-code-templates",
             "npx claude-code-templates --command generate-tests",
             "testing", <<"test", "coverage">>),
     Feature("react-specialist", "/react", "custom", "Add .claude/commands/react.md",
             "web-frontend", <<"component">>)>>,
   settings |-> <<
     Feature("permissions", "Permissions", "built-in", "Edit settings.json", "security",
             <<"permissions", "security", "authentication">>)>>]

\* A crowded catalog: more candidates than any output list holds (seven
\* agents and four commands that all match one task, phrase keywords,
\* categories of equal score, a hook with the id of an agent, servers no
\* task asks for), to exercise sorting and truncation.
crowdedAgent(id, source, installCommand, keywords) ==
  Feature(id, "Agent " \o id, source, installCommand, "frontend", keywords)

crowdedCommand(id, keywords) ==
  Feature(id, "/" \o id, "custom", "Add .claude/commands/" \o id \o ".md", "frontend", keywords)

crowdedMcp(id) ==
  Feature(id, "Server " \o id, "official", "claude mcp add " \o id, "storage", <<"warehouse">>)

CrowdedCategories ==
  [categories |-> <<
     Category("frontend", "Frontend",
              <<"react", "dashboard", "react dashboard", "build", "a react">>,
              [agents |-> <<"a1", "a2", "a3", "a4", "a5", "a6", "a7">>,
               commands |-> <<"c1", "c2", "c3", "c4">>,
               skills |-> <<"s1">>]),
     Category("auth", "Auth",
              <<"user", "authentication", "user authentication", "with">>,
              [agents |-> <<"a7", "a8">>, skills |-> <<"s1">>]),
     Category("web", "Web", <<"react", "a", "build a">>, [agents |-> <<"a7">>]),
     Category("app", "App", <<"dashboard", "dashboard with", "api", "ai">>,
              [settings |-> <<"t1">>, agents |-> <<"a8">>]),
     Category("ui", "UI", <<"with", "user", "a-i">>, [hooks |-> <<"h1">>])
   >>,
   taskPatterns |-> <<
     [pattern |-> "build", boost |-> <<"agents">>,
      priorityAgents |-> <<"a1", "a2", "a3", "a4", "a5", "a6", "a7">>,
      description |-> "Building"],
     [pattern |-> "react|api", boost |-> <<"commands", "agents">>,
      priorityAgents |-> <<"a7">>, description |-> "Stack"]
   >>,
   complexityIndicators |->
     [simple   |-> <<"a", "with", "quick", "simple">>,
      moderate |-> <<"react", "user">>,
      complex  |-> <<"build", "ai">>]]

CrowdedFeatures ==
  [skills |-> <<Feature("s1", "Skill s1", "anthropic", "claude skill add s1", "frontend",
                        <<"forms">>)>>,
   agents |-> <<
     crowdedAgent("a1", "custom", "Copy a1.md", <<"react">>),
     crowdedAgent("a2", "built-in", "Built-in agent", <<"react", "app">>),
     crowdedAgent("a3", "custom", "Copy a3.md", <<"react", "dashboard">>),
     crowdedAgent("a4", "custom", "Built-in since 2.0", <<"react">>),
     crowdedAgent("a5", "custom", "Copy a5.md", <<"react">>),
     crowdedAgent("a6", "built-in", "Built-in agent", <<"react">>),
     crowdedAgent("a7", "custom", "Copy a7.md", <<"react", "user">>),
     crowdedAgent("a8", "custom", "Copy a8.md", <<"api", "pip">>)>>,
   mcps |-> <<crowdedMcp("k1"), crowdedMcp("k2"), crowdedMcp("k3"),
              crowdedMcp("k4"), crowdedMcp("k5")>>,
   hooks |-> <<Feature("h1", "Hook h1", "custom", "Add to settings.json", "ui",
                       <<"lint">>),
               Feature("a7", "Hook a7", "custom", "Add to settings.json", "ui",
                       <<"format", "pi">>)>>,
   commands |-> <<
     crowdedCommand("c1", <<"react">>),
     crowdedCommand("c2", <<"react", "user">>),
     crowdedCommand("c3", <<"react">>),
     crowdedCommand("c4", <<"react">>)>>,
   settings |-> <<Feature("t1", "Setting t1", "built-in", "Edit settings.json", "app",
                          <<"dashboard">>)>>,
   claudemd |-> <<Feature("m1", "CLAUDE.md m1", "custom", "Create CLAUDE.md", "frontend",
                          <<"build", "react", "conventions">>)>>]

CategoryCatalogs == {MainCategories, CrowdedCategories}

FeatureCatalogs == {MainFeatures, CrowdedFeatures}

-----------------------------------------------------------------------------
(* The task descriptions                                                   *)

\* TaskAnalyzer.tsx: the example prompts a click puts into the text area
EXAMPLE_TASKS ==
  {"Build a React dashboard with user authentication",
   "Set up a FastAPI backend with PostgreSQL database",
   "Create CI/CD pipeline for Kubernetes deployment",
   "Debug performance issues in my Node.js API",
   "Add comprehensive test coverage to my project",
   "Implement security audit for my web application",
   "Build an AI chatbot with RAG capabilities",
   "Create API documentation for my REST endpoints"}

\* further request bodies: the scenarios the documentation walks through
ProbeTasks ==
  {"rapid development",
   "xyz completely unrelated gibberish qqq",
   "quick simple basic api dashboard",
   "fix qqq",
   "my frontend notes",
   "  Fix:  the_API -- pip, pi & api!! "}

\* the characters typed one at a time: letters, a capital, white space and
\* a punctuation mark normalizeTask replaces
Alphabet == {"a", "i", "A", " ", "."}

MaxTaskLen == 2

-----------------------------------------------------------------------------
(* The state machine                                                       *)

Init ==
  /\ categoriesData \in CategoryCatalogs
  /\ featuresData \in FeatureCatalogs
  /\ task = ""
  /\ analysis = NoValue
  /\ quick = NoValue
  /\ result = NoValue
  /\ earlier = NoValue
  /\ request = NoValue
  /\ response = NoValue
  /\ inflight = {}

\* a new task description: the responses to the previous one are dropped
newTask(t) ==
  /\ task' = t
  /\ analysis' = NoValue
  /\ quick' = NoValue
  /\ result' = NoValue
  /\ UNCHANGED <<categoriesData, featuresData, earlier>>
  /\ UNCHANGED serving

\* onChange of the text area, one more character
TypeChar ==
  \E c \in Alphabet :
    /\ Len(task) < MaxTaskLen
    /\ newTask(task \o c)

\* onChange of the text area, the text deleted
ClearTask ==
  /\ task # ""
  /\ newTask("")

\* handleExampleClick, or a client posting a task of its own
SetTask ==
  \E t \in EXAMPLE_TASKS \cup ProbeTasks :
    /\ t # task
    /\ newTask(t)

\* an analysis that leaves the catalog's categories in another order, as an
\* in-place sort or reverse of the loaded array would
AnalyzeTask_reorders ==
  /\ analysis' = analyzeTask(task)
  /\ categoriesData' =
       [categoriesData EXCEPT !.categories =
          array([i \in DOMAIN @ |-> @[Len(@) + 1 - i]])]
  /\ UNCHANGED <<featuresData, task, quick, result, earlier>>
  /\ UNCHANGED serving

AnalyzeTask ==
  /\ analysis' = analyzeTask(task)
  /\ UNCHANGED <<categoriesData, featuresData, task, quick, result, earlier>>
  /\ UNCHANGED serving

QuickAnalyze ==
  /\ quick' = quickAnalyze(task)
  /\ UNCHANGED <<categoriesData, featuresData, task, analysis, result, earlier>>
  /\ UNCHANGED serving

GenerateRecommendations ==
  /\ analysis # NoValue
  /\ result' = generateRecommendations(analysis)
  /\ UNCHANGED <<categoriesData, featuresData, task, analysis, quick, earlier>>
  /\ UNCHANGED serving

Next ==
  \/ TypeChar
  \/ ClearTask
  \/ SetTask
  \/ AnalyzeTask
  \/ QuickAnalyze
  \/ GenerateRecommendations

Spec == Init /\ [][Next]_vars

-----------------------------------------------------------------------------
(* Repeated calls.  The services keep no state of their own between calls: *)
(* the only module-level values are the two catalogs.  SpecDet lets a      *)
(* caller keep what an earlier call returned while further calls, for the  *)
(* same and for other tasks, go on.                                        *)

\* the caller takes the response of the last call pair away with it
Remember ==
  /\ result # NoValue
  /\ earlier' = [task |-> task, analysis |-> analysis, result |-> result]
  /\ analysis' = NoValue
  /\ result' = NoValue
  /\ UNCHANGED <<categoriesData, featuresData, task, quick>>
  /\ UNCHANGED serving

NextDet == SetTask \/ AnalyzeTask \/ GenerateRecommendations \/ Remember

SpecDet == Init /\ [][NextDet]_vars

-----------------------------------------------------------------------------
(* routes/analyze.ts.  A route handler runs from the request to the        *)
(* response without yielding (it awaits nothing), so the server takes the *)
(* next request when the last one has ended; analysis, result and quick   *)
(* are the handler's locals.  A property of the JSON body is a JavaScript      *)
(* value: its kind and its text.                                           *)

jsUndefined == [kind |-> "undefined", value |-> ""]

jsString(s) == [kind |-> "string", value |-> s]

\* typeof v
typeofJs(v) == IF v.kind \in {"null", "array"} THEN "object" ELSE v.kind

\* !v
isFalsy(v) ==
  \/ v.kind \in {"undefined", "null"}
  \/ v.kind = "boolean" /\ v.value = "false"
  \/ v.kind = "number" /\ v.value \in {"0", "NaN"}
  \/ v.kind = "string" /\ v.value = ""

\* a body without the property, and properties that are no strings
NonStringValues ==
  {jsUndefined,
   [kind |-> "null", value |-> "null"],
   [kind |-> "number", value |-> "0"],
   [kind |-> "number", value |-> "42"],
   [kind |-> "boolean", value |-> "false"],
   [kind |-> "boolean", value |-> "true"],
   [kind |-> "object", value |-> "{}"],
   [kind |-> "array", value |-> "[\"build an api\"]"]}

\* task strings around the length the routes test
BoundaryTasks == {"", " ", "   ", "ab", " ab ", "a b", "a \t b", "abc", " api "}

TaskValues ==
  NonStringValues \cup {jsString(t) : t \in EXAMPLE_TASKS \cup ProbeTasks \cup BoundaryTasks}

\* res.status(400).json({ error, details })
badRequest(error, details) ==
  [status |-> 400, body |-> [error |-> error, details |-> details]]

\* res.status(404).json({ error, details })
notFound(error, details) ==
  [status |-> 404, body |-> [error |-> error, details |-> details]]

\* res.json(body)
okResponse(body) == [status |-> 200, body |-> body]

\* !task || typeof task !== 'string'
isMissingOrInvalid(v) == isFalsy(v) \/ typeofJs(v) # "string"

\* analyzeRoutes.post('/')
PostAnalyze ==
  \E v \in TaskValues :
    /\ request = NoValue
    /\ request' = [route |-> "POST /api/analyze", task |-> v]
    /\ quick' = NoValue
    /\ IF isMissingOrInvalid(v)
       THEN /\ response' = badRequest("Missing or invalid task",
                                      "Please provide a task description as a string")
            /\ analysis' = NoValue
            /\ result' = NoValue
            /\ UNCHANGED task
       ELSE IF Len(trim(v.value)) < 3
            THEN /\ response' = badRequest("Task too short",
                                           "Please provide a more detailed task description")
                 /\ analysis' = NoValue
                 /\ result' = NoValue
                 /\ task' = v.value
            ELSE /\ task' = v.value
                 /\ analysis' = analyzeTask(v.value)
                 /\ result' = generateRecommendations(analysis')
                 /\ response' = okResponse(result')
    /\ UNCHANGED <<categoriesData, featuresData, earlier, inflight>>

\* analyzeRoutes.post('/quick')
PostQuick ==
  \E v \in TaskValues :
    /\ request = NoValue
    /\ request' = [route |-> "POST /api/analyze/quick", task |-> v]
    /\ analysis' = NoValue
    /\ result' = NoValue
    /\ IF isMissingOrInvalid(v)
       THEN /\ response' = badRequest("Missing or invalid task",
                                      "Please provide a task description as a string")
            /\ quick' = NoValue
            /\ UNCHANGED task
       ELSE /\ task' = v.value
            /\ quick' = quickAnalyze(v.value)
            /\ response' = okResponse(quick')
    /\ UNCHANGED <<categoriesData, featuresData, earlier, inflight>>

\* the response is sent and the handler returns: its locals are gone
EndRequest ==
  /\ request # NoValue
  /\ request' = NoValue
  /\ response' = NoValue
  /\ task' = ""
  /\ analysis' = NoValue
  /\ quick' = NoValue
  /\ result' = NoValue
  /\ UNCHANGED <<categoriesData, featuresData, earlier, inflight>>

NextRoutes == PostAnalyze \/ PostQuick \/ EndRequest

SpecRoutes == Init /\ [][NextRoutes]_vars

-----------------------------------------------------------------------------
(* routes/features.ts                                                      *)

\* res.status(500).json({ error, details }) of a catch block
serverError(error) == [status |-> 500, body |-> [error |-> error]]

\* getAllFeatures(): the seven properties in the order of the object
\* literal; a list the feature file lacks is undefined (defined is FALSE)
getAllFeatures ==
  array([i \in DOMAIN FeatureTypes |->
           bind(typeKeyOf(FeatureTypes[i]), LAMBDA key :
             [featureType |-> key,
              defined |-> key \in DOMAIN featuresData,
              items |-> IF key \in DOMAIN featuresData THEN featuresData[key] ELSE <<>>])])

\* features[key]: the property, and undefined for a key the object lacks
propertyOf(features, key) ==
  IF \E i \in DOMAIN features : features[i].featureType = key
  THEN features[CHOOSE i \in DOMAIN features : features[i].featureType = key]
  ELSE [featureType |-> key, defined |-> FALSE, items |-> <<>>]

\* type.endsWith('s')
endsWithS(s) == Len(s) > 0 /\ SubSeq(s, Len(s), Len(s)) = "s"

\* featureType.replace(/s$/, '')
withoutFinalS(featureType) ==
  IF endsWithS(featureType) THEN SubSeq(featureType, 1, Len(featureType) - 1) ELSE featureType

\* type && type !== featureType.replace(/s$/, '')
isSkippedType(type, featureType) ==
  ~isFalsy(type) /\ ~(type.kind = "string" /\ type.value = withoutFinalS(featureType))

\* the name check dropped
nameMatchScore_none(feature, query) == 0

nameMatchScore(feature, query) ==
  IF includes(toLowerCase(feature.name), query) THEN 30 ELSE 0

descriptionMatchScore(feature, query) ==
  IF includes(toLowerCase(feature.description), query) THEN 20 ELSE 0

\* kw.toLowerCase().includes(query) || query.includes(kw.toLowerCase())
isKeywordMatch(kw, query) ==
  \E lower \in {toLowerCase(kw)} : includes(lower, query) \/ includes(query, lower)

keywordMatchScore(feature, query) ==
  15 * Cardinality({i \in DOMAIN feature.keywords : isKeywordMatch(feature.keywords[i], query)})

whenToUseMatchScore(feature, query) ==
  IF includes(toLowerCase(feature.whenToUse), query) THEN 10 ELSE 0

\* the matchScore the loop body adds up for one feature
matchScoreOf(feature, query) ==
  nameMatchScore(feature, query) + descriptionMatchScore(feature, query)
    + keywordMatchScore(feature, query) + whenToUseMatchScore(feature, query)

\* items.forEach(...): the entries one list pushes, in order
searchItems(featureType, items, query) ==
  bind(array([i \in DOMAIN items |->
                [type |-> withoutFinalS(featureType), feature |-> items[i],
                 matchScore |-> matchScoreOf(items[i], query)]]), LAMBDA scored :
    SelectSeq(scored, LAMBDA r : r.matchScore > 0))

\* the sort with the comparison turned round: lowest matchScore first
sortByMatchScore_ascending(seq) ==
  bind(array([i \in DOMAIN seq |->
                Cardinality({j \in DOMAIN seq :
                   \/ seq[j].matchScore < seq[i].matchScore
                   \/ seq[j].matchScore = seq[i].matchScore /\ j < i}) + 1]),
       LAMBDA rank :
         array([k \in DOMAIN seq |-> seq[CHOOSE i \in DOMAIN seq : rank[i] = k]]))

\* results.sort((a, b) => b.matchScore - a.matchScore), a stable sort
sortByMatchScore(seq) ==
  bind(array([i \in DOMAIN seq |->
                Cardinality({j \in DOMAIN seq :
                   \/ seq[j].matchScore > seq[i].matchScore
                   \/ seq[j].matchScore = seq[i].matchScore /\ j < i}) + 1]),
       LAMBDA rank :
         array([k \in DOMAIN seq |-> seq[CHOOSE i \in DOMAIN seq : rank[i] = k]]))

\* the lists Object.entries(features).forEach does not skip
searchedEntries(features, type) ==
  SelectSeq(features, LAMBDA entry : ~isSkippedType(type, entry.featureType))

\* the handler of GET /search after the test of q: items.forEach throws a
\* TypeError on an undefined list, which the catch block answers
searchResponse(q, type) ==
  bind(trim(toLowerCase(q)), LAMBDA query :
  bind(searchedEntries(getAllFeatures, type), LAMBDA entries :
    IF \E i \in DOMAIN entries : ~entries[i].defined
    THEN serverError("Failed to search features")
    ELSE bind(array([i \in DOMAIN entries |->
                       searchItems(entries[i].featureType, entries[i].items, query)]),
              LAMBDA lists :
         bind(sortByMatchScore(flatten(lists)), LAMBDA results :
           okResponse([results |-> slice(results, 20), query |-> q,
                       count |-> Len(results)])))))

\* req.query.q: absent, a string, or the array of a repeated parameter
QueryValues ==
  {jsUndefined, [kind |-> "array", value |-> "[\"a\",\"b\"]"]}
    \cup {jsString(q) : q \in {"", " ", "e", "front", "React", " react ", "react dashboard",
                                "api", "security", "k1", "add", "zzz"}}

\* req.query.type
TypeFilters ==
  {jsUndefined} \cup {jsString(t) : t \in {"agent", "command", "mcp", "claudemd", "agents", ""}}

\* req.params.type
TypeNames ==
  Range(FeatureTypes) \cup {"skills", "agents", "mcps", "claudemds", "tool", "searches"}

\* featuresRoutes.get('/search')
GetSearch ==
  \E q \in QueryValues : \E type \in TypeFilters :
    /\ request = NoValue
    /\ request' = [route |-> "GET /api/features/search", q |-> q, type |-> type]
    /\ response' = IF isMissingOrInvalid(q)
                   THEN badRequest("Missing search query",
                                   "Please provide a search query with ?q=keyword")
                   ELSE searchResponse(q.value, type)
    /\ UNCHANGED <<categoriesData, featuresData, task, analysis, quick, result, earlier, inflight>>

\* the handler of GET /:type
typeResponse(type) ==
  bind(IF endsWithS(type) THEN type ELSE type \o "s", LAMBDA pluralType :
  bind(propertyOf(getAllFeatures, pluralType), LAMBDA typeFeatures :
    IF ~typeFeatures.defined
    THEN notFound("Invalid feature type",
                  "Valid types: skill, agent, mcp, hook, command, setting, claudemd")
    ELSE okResponse(typeFeatures.items)))

\* featuresRoutes.get('/:type')
GetByType ==
  \E type \in TypeNames :
    /\ request = NoValue
    /\ request' = [route |-> "GET /api/features/:type", type |-> type]
    /\ response' = typeResponse(type)
    /\ UNCHANGED <<categoriesData, featuresData, task, analysis, quick, result, earlier, inflight>>

NextFeatures == GetSearch \/ GetByType \/ EndRequest

SpecFeatures == Init /\ [][NextFeatures]_vars

-----------------------------------------------------------------------------
(* Concurrent requests.  The engine functions are synchronous, so one      *)
(* invocation runs to its end before another starts; what interleaves are  *)
(* the invocations of the requests in flight.                              *)

NumClients == 2

Clients == 1..NumClients

ConcurrentTasks == {"fix qqq", "rapid development", "quick simple basic api dashboard"}

\* the request of client c, when it has one in flight
requestOf(c) == CHOOSE r \in inflight : r.client = c

hasRequest(c) == \E r \in inflight : r.client = c

\* client c sends a request for task t
Submit(c, t) ==
  /\ ~hasRequest(c)
  /\ inflight' = inflight \cup
       {[client |-> c, task |-> t, analysis |-> NoValue, quick |-> NoValue, result |-> NoValue]}
  /\ UNCHANGED <<categoriesData, featuresData, task, analysis, quick, result, earlier,
                 request, response>>

\* an invocation of analyzeTask that also reverses the loaded categories
CallAnalyzeTask_reorders(c) ==
  /\ hasRequest(c)
  /\ requestOf(c).analysis = NoValue
  /\ \E r \in {requestOf(c)} :
       inflight' = (inflight \ {r}) \cup {[r EXCEPT !.analysis = analyzeTask(r.task)]}
  /\ categoriesData' =
       [categoriesData EXCEPT !.categories =
          array([i \in DOMAIN @ |-> @[Len(@) + 1 - i]])]
  /\ UNCHANGED <<featuresData, task, analysis, quick, result, earlier, request, response>>

\* analyzeTask(task) on behalf of client c
CallAnalyzeTask(c) ==
  /\ hasRequest(c)
  /\ requestOf(c).analysis = NoValue
  /\ \E r \in {requestOf(c)} :
       inflight' = (inflight \ {r}) \cup {[r EXCEPT !.analysis = analyzeTask(r.task)]}
  /\ UNCHANGED <<categoriesData, featuresData, task, analysis, quick, result, earlier,
                 request, response>>

\* quickAnalyze(task) on behalf of client c
CallQuickAnalyze(c) ==
  /\ hasRequest(c)
  /\ requestOf(c).quick = NoValue
  /\ \E r \in {requestOf(c)} :
       inflight' = (inflight \ {r}) \cup {[r EXCEPT !.quick = quickAnalyze(r.task)]}
  /\ UNCHANGED <<categoriesData, featuresData, task, analysis, quick, result, earlier,
                 request, response>>

\* generateRecommendations(analysis) on behalf of client c
CallGenerateRecommendations(c) ==
  /\ hasRequest(c)
  /\ requestOf(c).analysis # NoValue
  /\ requestOf(c).result = NoValue
  /\ \E r \in {requestOf(c)} :
       inflight' = (inflight \ {r}) \cup
                     {[r EXCEPT !.result = generateRecommendations(r.analysis)]}
  /\ UNCHANGED <<categoriesData, featuresData, task, analysis, quick, result, earlier,
                 request, response>>

\* client c has its answers and its request ends
Complete(c) ==
  /\ hasRequest(c)
  /\ requestOf(c).result # NoValue \/ requestOf(c).quick # NoValue
  /\ inflight' = inflight \ {requestOf(c)}
  /\ UNCHANGED <<categoriesData, featuresData, task, analysis, quick, result, earlier,
                 request, response>>

NextConcurrent ==
  \E c \in Clients :
    \/ \E t \in ConcurrentTasks : Submit(c, t)
    \/ CallAnalyzeTask(c)
    \/ CallQuickAnalyze(c)
    \/ CallGenerateRecommendations(c)
    \/ Complete(c)

SpecConcurrent == Init /\ [][NextConcurrent]_vars

-----------------------------------------------------------------------------
(* Vocabulary of the properties                                            *)

Min(a, b) == IF a < b THEN a ELSE b

\* every ScoredFeature of a RecommendationResult
Produced(r) ==
  UNION {Range(r.recommendations[k]) : k \in DOMAIN r.recommendations}
    \cup Range(r.summary.topPriority) \cup Range(r.summary.quickWins)

\* the features of the catalog, each with its type
TypedFeatures ==
  UNION {{[type |-> ty, feature |-> f] : f \in Range(getFeaturesByType(ty))} :
           ty \in Range(FeatureTypes)}

-----------------------------------------------------------------------------
(* C1: every ScoredFeature of a result, in each of the seven per-type      *)
(* arrays, in topPriority and in quickWins, has a score of at least 15,    *)
(* and its isPriority flag is true exactly when its score is at least 40.  *)

C1_ThresholdInvariant ==
  result # NoValue =>
    \A r \in Produced(result) :
      /\ r.score >= 15
      /\ r.isPriority <=> (r.score >= 40)

\* a result with a priority feature and a plain one, from a catalog in which
\* another feature scored above zero and below the threshold
C1_Witness ==
  /\ result # NoValue
  /\ \E r \in Produced(result) : r.isPriority
  /\ \E r \in Produced(result) : ~r.isPriority
  /\ \E tf \in TypedFeatures :
       \E s \in {scoreFeature(tf.feature, tf.type, analysis).score} : s > 0 /\ s < 15

-----------------------------------------------------------------------------
(* C2: in every result each of the seven per-type arrays holds at most 5   *)
(* entries, topPriority at most 5, quickWins at most 3, detectedKeywords   *)
(* at most 10 and topCategories at most 3.                                 *)

C2_TruncationInvariant ==
  result # NoValue =>
    /\ \A k \in DOMAIN result.recommendations : Len(result.recommendations[k]) <= 5
    /\ Len(result.summary.topPriority) <= 5
    /\ Len(result.summary.quickWins) <= 3
    /\ Len(result.analysis.detectedKeywords) <= 10
    /\ Len(result.analysis.topCategories) <= 3

\* every list is cut: more candidates than places in each of them
C2_Witness ==
  /\ result # NoValue
  /\ Len(analysis.keywords) > 10
  /\ Len(result.analysis.detectedKeywords) = 10
  /\ Len(analysis.categories) > 3
  /\ Len(result.analysis.topCategories) = 3
  /\ Len(result.recommendations.agents) = 5
  /\ Cardinality({i \in DOMAIN featuresData.agents :
        scoreFeature(featuresData.agents[i], "agent", analysis).score >= 15}) > 5
  /\ Len(result.summary.topPriority) = 5
  /\ Cardinality({r \in Produced(result) : r.isPriority}) > 5
  /\ Len(result.summary.quickWins) = 3
  /\ Cardinality({r \in Produced(result) : isQuickWin(r)}) > 3

-----------------------------------------------------------------------------
(* C3: when the normalized task holds none of the simple, moderate and     *)
(* complex indicator words, the complexity of the analysis is 'simple'.    *)
(* The code returns 'complex': 0 >= 0 holds twice in the first test of     *)
(* determineComplexity.                                                    *)

noIndicatorHits(normalizedTask) ==
  /\ countHits(categoriesData.complexityIndicators.simple, normalizedTask) = 0
  /\ countHits(categoriesData.complexityIndicators.moderate, normalizedTask) = 0
  /\ countHits(categoriesData.complexityIndicators.complex, normalizedTask) = 0

C3_AllZeroIsSimple ==
  (analysis # NoValue /\ Len(trim(task)) >= 3 /\ noIndicatorHits(analysis.normalizedTask))
    => analysis.complexity = "simple"

\* what the code does with a task without indicator words
C3_AllZeroIsComplex ==
  (analysis # NoValue /\ noIndicatorHits(analysis.normalizedTask))
    => analysis.complexity = "complex"

C3_Witness ==
  /\ analysis # NoValue
  /\ Len(trim(task)) >= 3
  /\ noIndicatorHits(analysis.normalizedTask)

-----------------------------------------------------------------------------
(* C4: with ws = simple hits, wm = 1.5 * moderate hits and wc = 2 * complex *)
(* hits, the complexity is 'complex' exactly when wc >= wm and wc >= ws,   *)
(* otherwise 'moderate' exactly when wm >= ws, otherwise 'simple'; with    *)
(* wm = ws and wc below both it is 'moderate'.  (Twice the weights below.) *)

C4_DecisionRule ==
  analysis # NoValue =>
    \A ws \in {2 * countHits(categoriesData.complexityIndicators.simple, analysis.normalizedTask)},
       wm \in {3 * countHits(categoriesData.complexityIndicators.moderate, analysis.normalizedTask)},
       wc \in {4 * countHits(categoriesData.complexityIndicators.complex, analysis.normalizedTask)} :
      /\ (analysis.complexity = "complex") <=> (wc >= wm /\ wc >= ws)
      /\ (analysis.complexity = "moderate") <=> (~(wc >= wm /\ wc >= ws) /\ wm >= ws)
      /\ (analysis.complexity = "simple") <=> (~(wc >= wm /\ wc >= ws) /\ ~(wm >= ws))
      /\ (wm = ws /\ wc < wm) => analysis.complexity = "moderate"

\* the tie of the weighted simple and moderate scores, above the complex one
C4_Witness ==
  /\ analysis # NoValue
  /\ analysis.complexity = "moderate"
  /\ \E hits \in {countHits(categoriesData.complexityIndicators.simple, analysis.normalizedTask)} :
       /\ hits > 0
       /\ 2 * hits = 3 * countHits(categoriesData.complexityIndicators.moderate, analysis.normalizedTask)
       /\ 4 * countHits(categoriesData.complexityIndicators.complex, analysis.normalizedTask) < 2 * hits

-----------------------------------------------------------------------------
(* C5: a catalog keyword that occurs in the normalized task only inside a  *)
(* longer word ('api' in 'rapid') is not among the keywords of the         *)
(* analysis, not among the matchedKeywords of any category, adds nothing   *)
(* to any category score and fires no 'Task mentions' reason.  A keyword   *)
(* is inside a longer word at an occurrence when the word goes on before   *)
(* its first or after its last character: that character and its          *)
(* neighbour in the task are both word characters.                         *)

CategoryKeywordSet ==
  UNION {Range(lowerAll(categoriesData.categories[c].keywords)) :
           c \in DOMAIN categoriesData.categories}

FeatureKeywordSet ==
  UNION {Range(lowerAll(tf.feature.keywords)) : tf \in TypedFeatures}

isWordCharAt(s, i) == i >= 1 /\ i <= Len(s) /\ SubSeq(s, i, i) \in WordChars

occurrences(kw, text) ==
  {p \in 0..(Len(text) - Len(kw)) : SubSeq(text, p + 1, p + Len(kw)) = kw}

onlyEmbedded(kw, text) ==
  /\ Len(kw) > 0
  /\ occurrences(kw, text) # {}
  /\ \A p \in occurrences(kw, text) :
       \/ isWordCharAt(kw, 1) /\ isWordCharAt(text, p)
       \/ isWordCharAt(kw, Len(kw)) /\ isWordCharAt(text, p + Len(kw) + 1)

\* the catalog keywords that occur in the task only inside longer words
embeddedKeywords(text) ==
  {kw \in CategoryKeywordSet \cup FeatureKeywordSet : onlyEmbedded(kw, text)}

withoutKeyword(category, kw) ==
  [category EXCEPT !.keywords = SelectSeq(@, LAMBDA k : toLowerCase(k) # kw)]

C5_WholeWordInvariant ==
  analysis # NoValue =>
    \A kw \in embeddedKeywords(analysis.normalizedTask) :
      /\ kw \notin Range(analysis.keywords)
      /\ \A i \in DOMAIN analysis.categories :
           kw \notin Range(analysis.categories[i].matchedKeywords)
      /\ \A c \in DOMAIN categoriesData.categories :
           \A without \in {withoutKeyword(categoriesData.categories[c], kw)} :
             matchCategory(categoriesData.categories[c],
                           analysis.normalizedTask, analysis.keywords).score
               = matchCategory(without, analysis.normalizedTask, analysis.keywords).score
      /\ \A tf \in TypedFeatures :
           ("Task mentions: " \o kw)
             \notin Range(scoreFeature(tf.feature, tf.type, analysis).reasons)

\* a category keyword and a feature keyword of three or more characters,
\* both only inside longer words of the analysed task
C5_Witness ==
  /\ analysis # NoValue
  /\ \E kw \in CategoryKeywordSet : onlyEmbedded(kw, analysis.normalizedTask)
  /\ \E kw \in FeatureKeywordSet :
       Len(kw) >= 3 /\ onlyEmbedded(kw, analysis.normalizedTask)

-----------------------------------------------------------------------------
(* C6: for a task of at least 3 characters in which no category keyword    *)
(* and no feature keyword occurs as a whole word, the analysis has no      *)
(* keywords and no categories, the seven recommendation arrays are empty   *)
(* and totalRecommendations is 0.  As stated this fails: a category name   *)
(* or id in the task (+15) and a matching task pattern (+10, +30) need no  *)
(* keyword.  It holds when, in addition, no category name or id occurs as  *)
(* a whole word and no task pattern matches.                               *)

noKeywordOccurs(normalizedTask) ==
  \A kw \in CategoryKeywordSet \cup FeatureKeywordSet : ~hasWholeWord(normalizedTask, kw)

noNameOrPatternOccurs(normalizedTask) ==
  /\ \A c \in DOMAIN categoriesData.categories :
       /\ ~hasWholeWord(normalizedTask, toLowerCase(categoriesData.categories[c].name))
       /\ ~hasWholeWord(normalizedTask, toLowerCase(categoriesData.categories[c].id))
  /\ \A p \in DOMAIN categoriesData.taskPatterns :
       ~wholeWordRegexTest(categoriesData.taskPatterns[p].pattern, normalizedTask)

emptyOutcome ==
  /\ analysis.keywords = <<>>
  /\ analysis.categories = <<>>
  /\ \A k \in DOMAIN result.recommendations : result.recommendations[k] = <<>>
  /\ result.summary.totalRecommendations = 0

C6_NoKeywordEmpty ==
  (/\ result # NoValue
   /\ Len(trim(task)) >= 3
   /\ noKeywordOccurs(analysis.normalizedTask))
    => emptyOutcome

C6_NoKeywordNamePatternEmpty ==
  (/\ result # NoValue
   /\ Len(trim(task)) >= 3
   /\ noKeywordOccurs(analysis.normalizedTask)
   /\ noNameOrPatternOccurs(analysis.normalizedTask))
    => emptyOutcome

\* recommendations for an unrecognized task of at least 3 characters
C6_Witness ==
  /\ result # NoValue
  /\ Len(trim(task)) >= 3
  /\ noKeywordOccurs(analysis.normalizedTask)
  /\ noNameOrPatternOccurs(analysis.normalizedTask)
  /\ result.summary.totalRecommendations = 0

-----------------------------------------------------------------------------
(* C7: for a fixed task and fixed catalogs, two invocations of analyzeTask *)
(* and of generateRecommendations on its result, in any order and with     *)
(* invocations for other tasks in between, return identical results,       *)
(* element order included.  (Checked under SpecDet: what a later call pair *)
(* returns for a task equals what an earlier one returned for it.)         *)

-----------------------------------------------------------------------------
(* C8: quickAnalyze agrees with analyzeTask on the same task: its keywords *)
(* are the first min(10, n) keywords of the analysis in the same order,    *)
(* its topCategories the ids of the first min(3, m) categories in the same *)
(* order, and its complexity the complexity of the analysis.               *)

C8_QuickAgrees ==
  (quick # NoValue /\ analysis # NoValue) =>
    /\ quick.keywords = SubSeq(analysis.keywords, 1, Min(10, Len(analysis.keywords)))
    /\ Len(quick.topCategories) = Min(3, Len(analysis.categories))
    /\ \A i \in DOMAIN quick.topCategories :
         quick.topCategories[i] = analysis.categories[i].category.id
    /\ quick.complexity = analysis.complexity

\* both results for a task with more than 10 keywords and more than 3 categories
C8_Witness ==
  /\ quick # NoValue
  /\ analysis # NoValue
  /\ Len(analysis.keywords) > 10
  /\ Len(quick.keywords) = 10
  /\ Len(analysis.categories) > 3
  /\ Len(quick.topCategories) = 3

-----------------------------------------------------------------------------
(* C9: every entry of the categories of an analysis has a score of at      *)
(* least 10, and every category of the catalog whose score for the task is *)
(* at least 10 is in the categories of the analysis exactly once.          *)

C9_CategoryThreshold ==
  analysis # NoValue =>
    /\ \A i \in DOMAIN analysis.categories : analysis.categories[i].score >= 10
    /\ \A c \in DOMAIN categoriesData.categories :
         matchCategory(categoriesData.categories[c],
                       analysis.normalizedTask, analysis.keywords).score >= 10
           => Cardinality({i \in DOMAIN analysis.categories :
                 analysis.categories[i].category = categoriesData.categories[c]}) = 1

\* a category exactly at the threshold is in, another one below it is out
C9_Witness ==
  /\ analysis # NoValue
  /\ \E i \in DOMAIN analysis.categories : analysis.categories[i].score = 10
  /\ \E c \in DOMAIN categoriesData.categories :
       /\ matchCategory(categoriesData.categories[c],
                        analysis.normalizedTask, analysis.keywords).score < 10
       /\ \A i \in DOMAIN analysis.categories :
            analysis.categories[i].category # categoriesData.categories[c]

-----------------------------------------------------------------------------
(* C10: a feature with a keyword equal to an extracted keyword, listed in  *)
(* the defaultFeatures of the top-ranked category for its type, with its   *)
(* type in boostFeatureTypes and its id in priorityAgents has a score of   *)
(* at least 85, at least four distinct match reasons, and is in            *)
(* topPriority.  The last part fails when more than five features qualify: *)
(* the per-type array and topPriority hold five each.  It holds in the     *)
(* form: it is in topPriority unless topPriority holds five features whose *)
(* scores are at least as high as its own.                                 *)

stacked(feature, type, a) ==
  /\ Range(lowerAll(feature.keywords)) \cap Range(a.keywords) # {}
  /\ Len(a.categories) >= 1
  /\ isDefaultFeature(a.categories[1].category.defaultFeatures, typeKeyOf(type), feature.id)
  /\ (type \in Range(a.boostFeatureTypes) \/ (type \o "s") \in Range(a.boostFeatureTypes))
  /\ feature.id \in Range(a.priorityAgents)

inTopPriority(feature, type) ==
  \E i \in DOMAIN result.summary.topPriority :
    /\ result.summary.topPriority[i].feature = feature
    /\ result.summary.topPriority[i].type = type

C10_StackedInTopPriority ==
  result # NoValue =>
    \A tf \in TypedFeatures :
      stacked(tf.feature, tf.type, analysis) =>
        \A s \in {scoreFeature(tf.feature, tf.type, analysis)} :
          /\ s.score >= 85
          /\ Cardinality(Range(s.reasons)) >= 4
          /\ inTopPriority(tf.feature, tf.type)

C10_StackedInTopPriorityUnlessFull ==
  result # NoValue =>
    \A tf \in TypedFeatures :
      stacked(tf.feature, tf.type, analysis) =>
        \A s \in {scoreFeature(tf.feature, tf.type, analysis)} :
          /\ s.score >= 85
          /\ Cardinality(Range(s.reasons)) >= 4
          /\ \/ inTopPriority(tf.feature, tf.type)
             \/ /\ Len(result.summary.topPriority) = 5
                /\ \A i \in DOMAIN result.summary.topPriority :
                     result.summary.topPriority[i].score >= s.score

\* a feature with the four signals stacked, in topPriority
C10_Witness ==
  /\ result # NoValue
  /\ \E tf \in TypedFeatures :
       /\ stacked(tf.feature, tf.type, analysis)
       /\ inTopPriority(tf.feature, tf.type)
       /\ Len(result.summary.topPriority) < 5

-----------------------------------------------------------------------------
(* C11: each of the seven per-type arrays is sorted by non-increasing      *)
(* score and holds the highest-scoring features of its type that pass the  *)
(* threshold: no feature of the type with a score of at least 15 that is   *)
(* absent from the array scores strictly more than one that is present,    *)
(* and the array has min(5, number of passing features) elements.          *)

nonIncreasing(seq) ==
  \A i \in DOMAIN seq : \A j \in DOMAIN seq : i < j => seq[i].score >= seq[j].score

\* the features of a type with their scores, those that pass the threshold
passing(type, a) ==
  {sf \in {[feature |-> f, score |-> scoreFeature(f, type, a).score] :
             f \in Range(getFeaturesByType(type))} : sf.score >= 15}

C11_PerTypeTopFive ==
  result # NoValue =>
    \A t \in DOMAIN FeatureTypes :
      \A list \in {result.recommendations[typeKeyOf(FeatureTypes[t])]},
         pass \in {passing(FeatureTypes[t], analysis)} :
        /\ nonIncreasing(list)
        /\ \A i \in DOMAIN list :
             [feature |-> list[i].feature, score |-> list[i].score] \in pass
        /\ \A sf \in pass :
             (\A i \in DOMAIN list : list[i].feature # sf.feature)
               => \A i \in DOMAIN list : sf.score <= list[i].score
        /\ Len(list) = Min(5, Cardinality(pass))

\* more than five passing agents with different scores: some are left out
C11_Witness ==
  /\ result # NoValue
  /\ Cardinality(passing("agent", analysis)) > 5
  /\ Len(result.recommendations.agents) = 5
  /\ result.recommendations.agents[1].score > result.recommendations.agents[5].score
  /\ \E sf \in passing("agent", analysis) :
       /\ \A i \in 1..5 : result.recommendations.agents[i].feature # sf.feature
       /\ sf.score < result.recommendations.agents[1].score

-----------------------------------------------------------------------------
(* C12: topPriority holds only entries with isPriority = true taken from   *)
(* the seven returned arrays, is sorted by non-increasing score and holds  *)
(* the top five of them: no priority entry of the arrays that is absent    *)
(* from topPriority scores strictly more than one that is present.         *)

\* the entries of the seven returned arrays
Returned(r) ==
  UNION {Range(r.recommendations[k]) : k \in DOMAIN r.recommendations}

C12_TopPriority ==
  result # NoValue =>
    \A top \in {result.summary.topPriority},
       priority \in {{r \in Returned(result) : r.isPriority}} :
      /\ Range(top) \subseteq priority
      /\ nonIncreasing(top)
      /\ \A r \in priority \ Range(top) : \A i \in DOMAIN top : r.score <= top[i].score
      /\ Len(top) = Min(5, Cardinality(priority))

\* more than five priority entries, of more than one type, with different
\* scores among the five kept
C12_Witness ==
  /\ result # NoValue
  /\ Cardinality({r \in Returned(result) : r.isPriority}) > 5
  /\ Len(result.summary.topPriority) = 5
  /\ result.summary.topPriority[1].score > result.summary.topPriority[5].score
  /\ Cardinality({r.type : r \in {x \in Returned(result) : x.isPriority}}) > 1

-----------------------------------------------------------------------------
(* C13: every entry of quickWins has a score of at least 30 and is         *)
(* built-in by source, a command by type, or has 'Built-in' in its         *)
(* installCommand; quickWins is sorted by non-increasing score; and no     *)
(* returned entry of that kind that is absent from quickWins scores        *)
(* strictly more than one that is present.                                 *)

easyToInstall(r) ==
  \/ r.feature.source = "built-in"
  \/ r.type = "command"
  \/ \E p \in 0..(Len(r.feature.installCommand) - 8) :
       SubSeq(r.feature.installCommand, p + 1, p + 8) = "Built-in"

C13_QuickWins ==
  result # NoValue =>
    \A wins \in {result.summary.quickWins} :
      /\ \A i \in DOMAIN wins :
           /\ wins[i] \in Returned(result)
           /\ wins[i].score >= 30
           /\ easyToInstall(wins[i])
      /\ nonIncreasing(wins)
      /\ \A r \in Returned(result) :
           (r.score >= 30 /\ easyToInstall(r) /\ r \notin Range(wins))
             => \A i \in DOMAIN wins : r.score <= wins[i].score

\* three quick wins kept out of more; among the candidates one that is easy
\* to install by its installCommand alone
C13_Witness ==
  /\ result # NoValue
  /\ Len(result.summary.quickWins) = 3
  /\ Cardinality({r \in Returned(result) : r.score >= 30 /\ easyToInstall(r)}) > 3
  /\ \E r \in Returned(result) :
       r.score >= 30 /\ r.feature.source # "built-in" /\ r.type # "command" /\ easyToInstall(r)

-----------------------------------------------------------------------------
(* C14: the precondition of POST /api/analyze                              *)

\* the number of characters of s that are no whitespace
nonWhitespaceCount(s) == Cardinality({i \in 1..Len(s) : SubSeq(s, i, i) \notin WhiteSpace})

servedBy(route) == request # NoValue /\ request.route = route

\* the handler answered 400 and called neither analyzeTask nor generateRecommendations
rejectedBeforeEngine ==
  response.status = 400 /\ analysis = NoValue /\ result = NoValue /\ quick = NoValue

\* C14 as stated: POST /api/analyze answers 400, without calling analyzeTask or
\* generateRecommendations, when the task is missing, is no string or has fewer
\* than 3 non-whitespace characters, and answers every other request with the
\* RecommendationResult of the task.
C14_RejectsFewNonWhitespace ==
  servedBy("POST /api/analyze") =>
    \E v \in {request.task} :
      IF typeofJs(v) # "string" \/ nonWhitespaceCount(v.value) < 3
      THEN rejectedBeforeEngine
      ELSE /\ response.status = 200
           /\ response.body = generateRecommendations(analyzeTask(v.value))

\* what the handler does: the length it tests is that of the trimmed task,
\* inner whitespace included
C14_RejectsShortTrimmed ==
  servedBy("POST /api/analyze") =>
    \E v \in {request.task} :
      IF typeofJs(v) # "string" \/ Len(trim(v.value)) < 3
      THEN rejectedBeforeEngine
      ELSE /\ response.status = 200
           /\ response.body = generateRecommendations(analyzeTask(v.value))

\* a task of two non-whitespace characters around an inner blank is analysed
C14_Witness ==
  /\ servedBy("POST /api/analyze")
  /\ request.task = jsString("a b")
  /\ response.status = 200
  /\ analysis # NoValue
  /\ response.body = result

-----------------------------------------------------------------------------
(* C15: the precondition of POST /api/analyze/quick                        *)

\* C15 as stated: POST /api/analyze/quick answers 400, before quickAnalyze
\* runs, when the task is missing, is no string or is shorter than 3 characters.
C15_QuickRejectsShort ==
  servedBy("POST /api/analyze/quick") =>
    \E v \in {request.task} :
      (typeofJs(v) # "string" \/ Len(v.value) < 3) => rejectedBeforeEngine

\* what the handler does: only a missing, empty or non-string task is rejected,
\* every other request gets the quick analysis of its task
C15_QuickRejectsNonString ==
  servedBy("POST /api/analyze/quick") =>
    \E v \in {request.task} :
      IF typeofJs(v) # "string" \/ v.value = ""
      THEN rejectedBeforeEngine
      ELSE response.status = 200 /\ quick = quickAnalyze(v.value) /\ response.body = quick

\* a task of two characters gets a quick analysis
C15_Witness ==
  /\ servedBy("POST /api/analyze/quick")
  /\ request.task = jsString("ab")
  /\ response.status = 200
  /\ quick # NoValue

-----------------------------------------------------------------------------
(* C16: what a feature search returns                                      *)

\* text contains the query, whatever the case of text
containsQuery(text, query) == includes(toLowerCase(text), query)

matchingKeywords(f, query) ==
  {i \in DOMAIN f.keywords :
     \/ includes(toLowerCase(f.keywords[i]), query)
     \/ includes(query, toLowerCase(f.keywords[i]))}

\* 30 for the name, 20 for the description, 15 per matching keyword, 10 for whenToUse
weightedMatches(f, query) ==
  (IF containsQuery(f.name, query) THEN 30 ELSE 0)
    + (IF containsQuery(f.description, query) THEN 20 ELSE 0)
    + 15 * Cardinality(matchingKeywords(f, query))
    + (IF containsQuery(f.whenToUse, query) THEN 10 ELSE 0)

\* the type names a search with this filter covers
searchedTypes(filter) ==
  {ty \in Range(FeatureTypes) : isFalsy(filter) \/ filter = jsString(ty)}

\* the features of the catalog a search with this filter looks at and the
\* score each has for the query
Candidates(filter, query) ==
  {[type |-> c.type, feature |-> c.feature, matchScore |-> weightedMatches(c.feature, query)] :
     c \in {c \in TypedFeatures : c.type \in searchedTypes(filter)}}

searchAnswered == servedBy("GET /api/features/search") /\ response.status = 200

\* the query as the search compares it: lower case, trimmed
queryOf(req) == trim(toLowerCase(req.q.value))

\* C16: the results of a search are features with matchScore > 0, the score
\* being 30 (name) + 20 (description) + 15 per matching keyword + 10
\* (whenToUse); they are in non-increasing order of matchScore, they are the
\* best min(count, 20) of the matching features, and count is the number of
\* matching features.
C16_SearchResults ==
  searchAnswered =>
    \E results \in {response.body.results} :
    \E matching \in {{c \in Candidates(request.type, queryOf(request)) : c.matchScore > 0}} :
      /\ Range(results) \subseteq matching
      /\ \A i \in DOMAIN results : \A j \in DOMAIN results :
           i < j => results[i].matchScore >= results[j].matchScore /\ results[i] # results[j]
      /\ response.body.count = Cardinality(matching)
      /\ Len(results) = Min(response.body.count, 20)
      /\ \A c \in matching \ Range(results) :
           \A i \in DOMAIN results : c.matchScore <= results[i].matchScore

\* more than 20 features match, of several scores, and 20 are returned
C16_Witness ==
  /\ searchAnswered
  /\ response.body.count > 20
  /\ Len(response.body.results) = 20
  /\ response.body.results[1].matchScore > response.body.results[20].matchScore

-----------------------------------------------------------------------------
(* C17: a match of the name counts more than a match of the description    *)

\* a's name contains the query, of b only the description does, and they
\* agree on the matching keywords and on whenToUse
nameAgainstDescription(a, b, query) ==
  /\ containsQuery(a.feature.name, query)
  /\ ~containsQuery(b.feature.name, query)
  /\ containsQuery(b.feature.description, query)
  /\ Cardinality(matchingKeywords(a.feature, query))
       = Cardinality(matchingKeywords(b.feature, query))
  /\ containsQuery(a.feature.whenToUse, query) = containsQuery(b.feature.whenToUse, query)

\* the result of the response for this feature of this type
resultsFor(c) ==
  {i \in DOMAIN response.body.results :
     /\ response.body.results[i].type = c.type
     /\ response.body.results[i].feature = c.feature}

\* C17: of two searched features that agree on keyword and whenToUse matches,
\* the one whose name contains the query has a strictly higher matchScore than
\* the one of which only the description does, and stands before it in the
\* results.
C17_NameBeforeDescription ==
  searchAnswered =>
    \E query \in {queryOf(request)} :
    \E candidates \in {Candidates(request.type, query)} :
      \A a \in candidates : \A b \in candidates :
        nameAgainstDescription(a, b, query) =>
          /\ response.body.count <= 20 => resultsFor(a) # {}
          /\ \A j \in resultsFor(b) :
               \E i \in resultsFor(a) :
                 /\ i < j
                 /\ response.body.results[i].matchScore > response.body.results[j].matchScore

\* both features of such a pair are in the results
C17_Witness ==
  /\ searchAnswered
  /\ \E query \in {queryOf(request)} :
     \E candidates \in {Candidates(request.type, query)} :
       \E a \in candidates : \E b \in candidates :
         /\ nameAgainstDescription(a, b, query)
         /\ resultsFor(a) # {}
         /\ resultsFor(b) # {}

-----------------------------------------------------------------------------
(* C18: the list of one feature type                                       *)

typeAsked == servedBy("GET /api/features/:type")

\* C18 as stated: GET /api/features/:type answers each of the seven type
\* names with the list of that type, and answers 404 only a name that is none
\* of the seven.
C18_ValidTypeListed ==
  typeAsked =>
    /\ (request.type \in Range(FeatureTypes) /\ typeKeyOf(request.type) \in DOMAIN featuresData)
         => response = okResponse(featuresData[typeKeyOf(request.type)])
    /\ response.status = 404 => request.type \notin Range(FeatureTypes)

\* what the handler does: it looks up the name with an s added, which is the
\* key of six of the types but not of claudemd
C18_ClaudemdNotFound ==
  typeAsked =>
    /\ (request.type \in Range(FeatureTypes) \ {"claudemd"}
          /\ typeKeyOf(request.type) \in DOMAIN featuresData)
         => response = okResponse(featuresData[typeKeyOf(request.type)])
    /\ request.type = "claudemd" => response.status = 404

\* the feature file has a claudemd list and the request for it is answered 404
C18_Witness ==
  /\ typeAsked
  /\ request.type = "claudemd"
  /\ "claudemd" \in DOMAIN featuresData
  /\ Len(featuresData.claudemd) > 0
  /\ response.status = 404
  /\ response.body.error = "Invalid feature type"

-----------------------------------------------------------------------------
(* C19: concurrent invocations                                             *)

\* what the request has got so far is what each function returns for its
\* task when called on its own
answeredAsAlone(r) ==
  /\ r.analysis # NoValue => r.analysis = analyzeTask(r.task)
  /\ r.quick # NoValue => r.quick = quickAnalyze(r.task)
  /\ r.result # NoValue => r.result = generateRecommendations(analyzeTask(r.task))

-----------------------------------------------------------------------------
(* C20: the score of a category                                            *)

\* the category's keywords, in lower case
lowerKeywordSet(category) == {toLowerCase(k) : k \in Range(category.keywords)}

\* the extracted keywords that are keywords of the category
directMatches(category, keywords) == Range(keywords) \cap lowerKeywordSet(category)

\* the keywords of the category that are whole words of the task and are no
\* direct matches
textOnlyMatches(category, normalizedTask, keywords) ==
  {k \in lowerKeywordSet(category) : hasWholeWord(normalizedTask, k)}
    \ directMatches(category, keywords)

nameOrIdAppears(category, normalizedTask) ==
  \/ hasWholeWord(normalizedTask, toLowerCase(category.name))
  \/ hasWholeWord(normalizedTask, toLowerCase(category.id))

\* score and matchedKeywords of an entry are those of the three rules
scoredByRules(entry, normalizedTask, keywords) ==
  \E direct \in {directMatches(entry.category, keywords)} :
  \E inText \in {textOnlyMatches(entry.category, normalizedTask, keywords)} :
    /\ entry.score = 10 * Cardinality(direct) + 5 * Cardinality(inText)
                       + (IF nameOrIdAppears(entry.category, normalizedTask) THEN 15 ELSE 0)
    /\ Range(entry.matchedKeywords) = direct \cup inText
    /\ Len(entry.matchedKeywords) = Cardinality(direct \cup inText)

\* C20: for every category of the catalog the score is 10 per extracted
\* keyword that is a keyword of the category, plus 5 per other keyword of the
\* category that is a whole word of the task, plus 15 if the name or id of the
\* category is a whole word of the task; matchedKeywords holds every counted
\* keyword once.  The categories of the analysis carry these entries.
C20_CategoryScore ==
  analysis # NoValue =>
    /\ \A c \in Range(categoriesData.categories) :
         scoredByRules(matchCategory(c, analysis.normalizedTask, analysis.keywords),
                       analysis.normalizedTask, analysis.keywords)
    /\ \A i \in DOMAIN analysis.categories :
         /\ analysis.categories[i].category \in Range(categoriesData.categories)
         /\ scoredByRules(analysis.categories[i], analysis.normalizedTask, analysis.keywords)

\* a category scored for two keywords and for its name: 10 + 10 + 15
C20_Witness ==
  /\ analysis # NoValue
  /\ \E i \in DOMAIN analysis.categories :
       /\ Len(analysis.categories[i].matchedKeywords) = 2
       /\ nameOrIdAppears(analysis.categories[i].category, analysis.normalizedTask)
       /\ analysis.categories[i].score = 35

-----------------------------------------------------------------------------
(* C21: the order of the matched categories                                *)

\* where the category stands in the catalog
catalogIndex(category) ==
  CHOOSE c \in DOMAIN categoriesData.categories : categoriesData.categories[c] = category

\* C21: the categories of an analysis are in non-increasing order of score,
\* and categories of equal score are in the order of the catalog.
C21_CategoriesSortedStable ==
  analysis # NoValue =>
    \E cats \in {analysis.categories} :
      \A i \in DOMAIN cats : \A j \in DOMAIN cats :
        i < j =>
          /\ cats[i].score >= cats[j].score
          /\ cats[i].score = cats[j].score
               => catalogIndex(cats[i].category) < catalogIndex(cats[j].category)

\* categories of equal score next to a category of another score, and one of
\* the catalog's later categories ranked before an earlier one
C21_Witness ==
  /\ analysis # NoValue
  /\ \E cats \in {analysis.categories} :
       /\ \E i \in DOMAIN cats : \E j \in DOMAIN cats :
            i < j /\ cats[i].score = cats[j].score
       /\ \E i \in DOMAIN cats : \E j \in DOMAIN cats :
            /\ i < j
            /\ cats[i].score > cats[j].score
            /\ catalogIndex(cats[i].category) > catalogIndex(cats[j].category)

-----------------------------------------------------------------------------
(* The five signals of scoreFeature, stated on the analysis                *)

featureKeywordSet(f) == {toLowerCase(k) : k \in Range(f.keywords)}

\* the extracted keywords the feature lists
matchedTaskKeywords(f, a) == {k \in Range(a.keywords) : toLowerCase(k) \in featureKeywordSet(f)}

\* the ranks of the matched categories whose defaults for the type list the feature
defaultRanks(f, type, a) ==
  {i \in DOMAIN a.categories :
     /\ typeKeyOf(type) \in DOMAIN a.categories[i].category.defaultFeatures
     /\ f.id \in Range(a.categories[i].category.defaultFeatures[typeKeyOf(type)])}

typeIsBoosted(type, a) ==
  (type \o "s") \in Range(a.boostFeatureTypes) \/ type \in Range(a.boostFeatureTypes)

hasPriorityId(f, a) == f.id \in Range(a.priorityAgents)

\* the entries of the feature's keyword list the task mentions: 3 characters
\* or more, a whole word of the normalized task, no extracted keyword
mentionedEntries(f, a) ==
  {i \in DOMAIN f.keywords :
     \E k \in {toLowerCase(f.keywords[i])} :
       /\ Len(k) >= 3
       /\ hasWholeWord(a.normalizedTask, k)
       /\ k \notin Range(a.keywords)}

keywordPoints(f, a) == 25 * Cardinality(matchedTaskKeywords(f, a))

defaultPoints(f, type, a) ==
  10 * Cardinality(defaultRanks(f, type, a)) + (IF 1 \in defaultRanks(f, type, a) THEN 10 ELSE 0)

patternPoints(type, a) == IF typeIsBoosted(type, a) THEN 10 ELSE 0

priorityPoints(f, a) == IF hasPriorityId(f, a) THEN 30 ELSE 0

mentionPoints(f, a) == 10 * Cardinality(mentionedEntries(f, a))

\* how often the reason stands in the list
timesGiven(reasons, reason) == Cardinality({i \in DOMAIN reasons : reasons[i] = reason})

\* the returned entries are scored by scoreFeature on the analysis
returnedAsScored ==
  result # NoValue =>
    \A r \in Returned(result) :
      \E s \in {scoreFeature(r.feature, r.type, analysis)} :
        r.score = s.score /\ r.matchReasons = s.reasons

-----------------------------------------------------------------------------
(* C22: the category-default signal                                        *)

\* C22: a feature listed in the defaults (of its type) of k matched categories
\* gains 10 * k points, and 10 more if one of them is the top-ranked category:
\* its score is that plus the points of the other four signals, and it has one
\* "Recommended for" reason per such category.
C22_CategoryDefaults ==
  result # NoValue =>
    /\ returnedAsScored
    /\ \A tf \in TypedFeatures :
         \E f \in {tf.feature} : \E s \in {scoreFeature(tf.feature, tf.type, analysis)} :
           /\ s.score = keywordPoints(f, analysis) + patternPoints(tf.type, analysis)
                          + priorityPoints(f, analysis) + mentionPoints(f, analysis)
                          + defaultPoints(f, tf.type, analysis)
           /\ \A i \in DOMAIN analysis.categories :
                timesGiven(s.reasons, "Recommended for " \o analysis.categories[i].category.name)
                  = Cardinality({j \in defaultRanks(f, tf.type, analysis) :
                       analysis.categories[j].category.name
                         = analysis.categories[i].category.name})

\* a returned feature listed by the top-ranked category and by two more
\* matched categories: 20 + 10 + 10 from this signal
C22_Witness ==
  /\ result # NoValue
  /\ \E r \in Returned(result) :
       \E ranks \in {defaultRanks(r.feature, r.type, analysis)} :
         /\ 1 \in ranks
         /\ Cardinality(ranks) >= 3
         /\ r.score >= 40

-----------------------------------------------------------------------------
(* C23: the two keyword signals                                            *)

\* C23: a keyword of a feature gives "Matches keyword" (25) exactly when it is
\* an extracted keyword, and "Task mentions" (10) exactly when it has 3 or
\* more characters, is a whole word of the normalized task and is no extracted
\* keyword; so no keyword gives both and a keyword of fewer than 3 characters
\* never gives "Task mentions".
C23_KeywordSignalsDisjoint ==
  result # NoValue =>
    \A tf \in TypedFeatures :
      \E f \in {tf.feature} : \E s \in {scoreFeature(tf.feature, tf.type, analysis)} :
        /\ s.score = 25 * Cardinality(matchedTaskKeywords(f, analysis))
                       + 10 * Cardinality(mentionedEntries(f, analysis))
                       + defaultPoints(f, tf.type, analysis) + patternPoints(tf.type, analysis)
                       + priorityPoints(f, analysis)
        /\ \A k \in featureKeywordSet(f) :
             /\ timesGiven(s.reasons, "Matches keyword: " \o k)
                  = (IF k \in Range(analysis.keywords) THEN 1 ELSE 0)
             /\ timesGiven(s.reasons, "Task mentions: " \o k)
                  = Cardinality({i \in mentionedEntries(f, analysis) :
                                   toLowerCase(f.keywords[i]) = k})
             /\ ~(/\ timesGiven(s.reasons, "Matches keyword: " \o k) > 0
                  /\ timesGiven(s.reasons, "Task mentions: " \o k) > 0)
             /\ Len(k) < 3 => timesGiven(s.reasons, "Task mentions: " \o k) = 0

\* one feature with a keyword that is extracted (25), a keyword the task only
\* mentions (10), and a feature whose short keyword is a word of the task
\* without being extracted
C23_Witness ==
  /\ analysis # NoValue
  /\ \E tf \in TypedFeatures :
       /\ matchedTaskKeywords(tf.feature, analysis) # {}
       /\ mentionedEntries(tf.feature, analysis) # {}
  /\ \E tf \in TypedFeatures :
       \E k \in featureKeywordSet(tf.feature) :
         /\ Len(k) < 3
         /\ hasWholeWord(analysis.normalizedTask, k)
         /\ k \notin Range(analysis.keywords)

-----------------------------------------------------------------------------
(* C24: what the matched patterns contribute                               *)

\* the alternatives of a pattern that is words joined by "|"
alternativesOf(pattern) ==
  {SubSeq(pattern, ij[1], ij[2]) :
     ij \in {ij \in (1..Len(pattern)) \X (1..Len(pattern)) :
               /\ ij[1] <= ij[2]
               /\ \A m \in ij[1]..ij[2] : SubSeq(pattern, m, m) # "|"
               /\ (ij[1] = 1 \/ SubSeq(pattern, ij[1] - 1, ij[1] - 1) = "|")
               /\ (ij[2] = Len(pattern) \/ SubSeq(pattern, ij[2] + 1, ij[2] + 1) = "|")}}

\* w stands in the text as a word of its own
standsAsWord(w, text) ==
  \E p \in occurrences(w, text) : ~isWordCharAt(text, p) /\ ~isWordCharAt(text, p + Len(w) + 1)

\* the patterns of the catalog of which an alternative is a whole word of the text
matchingPatterns(text) ==
  {p \in DOMAIN categoriesData.taskPatterns :
     \E w \in alternativesOf(toLowerCase(categoriesData.taskPatterns[p].pattern)) :
       standsAsWord(w, text)}

priorityAgentsOf(pattern) ==
  IF "priorityAgents" \in DOMAIN pattern THEN Range(pattern.priorityAgents) ELSE {}

\* C24: boostFeatureTypes holds, each once, the members of the boost lists of
\* the patterns that match the normalized task, and priorityAgents holds, each
\* once, the members of their priorityAgents lists: every matching pattern
\* contributes, no other pattern does.
C24_PatternContributions ==
  analysis # NoValue =>
    \E matching \in {matchingPatterns(analysis.normalizedTask)} :
      /\ Range(analysis.patterns) = {categoriesData.taskPatterns[p] : p \in matching}
      /\ Range(analysis.boostFeatureTypes)
           = UNION {Range(categoriesData.taskPatterns[p].boost) : p \in matching}
      /\ Len(analysis.boostFeatureTypes) = Cardinality(Range(analysis.boostFeatureTypes))
      /\ Range(analysis.priorityAgents)
           = UNION {priorityAgentsOf(categoriesData.taskPatterns[p]) : p \in matching}
      /\ Len(analysis.priorityAgents) = Cardinality(Range(analysis.priorityAgents))

\* two patterns match and share a boost, both contribute a priority agent of
\* their own, and a pattern that does not match keeps its boosts out
C24_Witness ==
  /\ analysis # NoValue
  /\ \E matching \in {matchingPatterns(analysis.normalizedTask)} :
       /\ \E p \in matching : \E q \in matching :
            /\ p # q
            /\ Range(categoriesData.taskPatterns[p].boost)
                 \cap Range(categoriesData.taskPatterns[q].boost) # {}
            /\ priorityAgentsOf(categoriesData.taskPatterns[p])
                 \ priorityAgentsOf(categoriesData.taskPatterns[q]) # {}
            /\ Range(categoriesData.taskPatterns[q].boost)
                 \ Range(categoriesData.taskPatterns[p].boost) # {}
       /\ \E n \in DOMAIN categoriesData.taskPatterns \ matching :
            Range(categoriesData.taskPatterns[n].boost)
              \ Range(analysis.boostFeatureTypes) # {}

-----------------------------------------------------------------------------
(* C25: the normalized task                                                *)

\* lower-case letters, digits, the underscore, the hyphen and the space
NormalChars == (WordChars \ UpperChars) \cup {"-", " "}

isNormal(n) ==
  /\ CharSet(n) \subseteq NormalChars
  /\ Len(n) > 0 => SubSeq(n, 1, 1) # " " /\ SubSeq(n, Len(n), Len(n)) # " "
  /\ \A i \in 1..(Len(n) - 1) : ~(SubSeq(n, i, i) = " " /\ SubSeq(n, i + 1, i + 1) = " ")

\* C25: normalizing a normalized task changes nothing; a normalized task holds
\* only lower-case word characters, hyphens and single spaces, neither starts
\* nor ends with a space, and is empty when the task is empty or all whitespace.
C25_NormalizeIdempotent ==
  \E n \in {normalizeTask(task)} :
    /\ normalizeTask(n) = n
    /\ isNormal(n)
    /\ CharSet(task) \subseteq WhiteSpace => n = ""
    /\ analysis # NoValue => analysis.normalizedTask = n

\* a task with capitals, punctuation, runs of blanks and blanks at both ends
C25_Witness ==
  /\ analysis # NoValue
  /\ task = "  Fix:  the_API -- pip, pi & api!! "
  /\ analysis.normalizedTask = "fix the_api -- pip pi api"

-----------------------------------------------------------------------------
(* C26: the second loop of matchCategories adds nothing                    *)

-----------------------------------------------------------------------------
(* C27: keywords with a character normalization removes                    *)

\* the catalog keywords that hold a character normalizeTask replaces
removedCharKeywords ==
  {k \in CategoryKeywordSet \cup FeatureKeywordSet : ~(CharSet(k) \subseteq KeptChars)}

\* C27: a catalog keyword with a character other than a word character,
\* whitespace or hyphen is no extracted keyword, no matched keyword of a
\* category and no whole word of the normalized task, and gives no feature a
\* "Matches keyword" or "Task mentions" reason, whatever the task.
C27_RemovedCharKeywordNeverMatches ==
  analysis # NoValue =>
    \A k \in removedCharKeywords :
      /\ k \notin Range(analysis.keywords)
      /\ ~hasWholeWord(analysis.normalizedTask, k)
      /\ \A i \in DOMAIN analysis.categories :
           k \notin Range(analysis.categories[i].matchedKeywords)
      /\ \A tf \in {tf \in TypedFeatures : result # NoValue /\ k \in featureKeywordSet(tf.feature)} :
           \E s \in {scoreFeature(tf.feature, tf.type, analysis)} :
             /\ "Matches keyword: " \o k \notin Range(s.reasons)
             /\ "Task mentions: " \o k \notin Range(s.reasons)

\* the task spells such a keyword out, a category and a feature list it, and
\* the analysis has other keywords of that category but not this one
C27_Witness ==
  /\ analysis # NoValue
  /\ \E k \in removedCharKeywords :
       /\ includes(toLowerCase(task), k)
       /\ \E tf \in TypedFeatures : k \in featureKeywordSet(tf.feature)
       /\ \E i \in DOMAIN analysis.categories :
            /\ k \in lowerKeywordSet(analysis.categories[i].category)
            /\ k \notin Range(analysis.categories[i].matchedKeywords)

-----------------------------------------------------------------------------
(* C28: what totalRecommendations counts                                   *)

\* the sum of the lengths of the seven arrays of a result
returnedCount(r) ==
  Len(r.recommendations.skills) + Len(r.recommendations.agents)
    + Len(r.recommendations.mcps) + Len(r.recommendations.hooks)
    + Len(r.recommendations.commands) + Len(r.recommendations.settings)
    + Len(r.recommendations.claudemd)

\* of the first k feature types, the features that pass, five at most per type
RECURSIVE keptCount(_, _)
keptCount(a, k) ==
  IF k = 0 THEN 0
  ELSE Min(5, Cardinality(passing(FeatureTypes[k], a))) + keptCount(a, k - 1)

\* the features that pass the threshold and are in no returned array
cutOff(r, a) ==
  {tf \in TypedFeatures :
     /\ scoreFeature(tf.feature, tf.type, a).score >= 15
     /\ \A x \in Returned(r) : ~(x.type = tf.type /\ x.feature = tf.feature)}

\* C28: totalRecommendations is the sum of the lengths of the seven arrays as
\* returned, five at most per type, so at most 35; a feature that passes the
\* threshold and is cut off by the limit of its type is not counted and is in
\* neither topPriority nor quickWins.
C28_TotalCountsReturned ==
  result # NoValue =>
    /\ result.summary.totalRecommendations = returnedCount(result)
    /\ result.summary.totalRecommendations = keptCount(analysis, Len(FeatureTypes))
    /\ result.summary.totalRecommendations <= 35
    /\ Range(result.summary.topPriority) \cup Range(result.summary.quickWins)
         \subseteq Returned(result)
    /\ \A tf \in cutOff(result, analysis) :
         \A x \in Range(result.summary.topPriority) \cup Range(result.summary.quickWins) :
           ~(x.type = tf.type /\ x.feature = tf.feature)

\* features of priority score are cut off, topPriority has room left for
\* them, and fewer features are counted than pass the threshold
C28_Witness ==
  /\ result # NoValue
  /\ \E tf \in cutOff(result, analysis) :
       scoreFeature(tf.feature, tf.type, analysis).score >= 40
  /\ Len(result.summary.topPriority) = 5
  /\ result.summary.totalRecommendations
       < Cardinality({tf \in TypedFeatures :
                        scoreFeature(tf.feature, tf.type, analysis).score >= 15})

-----------------------------------------------------------------------------
(* C29: one +10 contribution alone is not enough                           *)

\* a contribution of 25, 20 or 30: a matched keyword, a default of the
\* top-ranked category, a priority id
hasStrongSignal(f, type, a) ==
  \/ matchedTaskKeywords(f, a) # {}
  \/ 1 \in defaultRanks(f, type, a)
  \/ hasPriorityId(f, a)

\* the number of contributions of 10: defaults of lower-ranked categories,
\* the pattern boost of the type, mentioned keywords
tenContributions(f, type, a) ==
  Cardinality(defaultRanks(f, type, a) \ {1})
    + (IF typeIsBoosted(type, a) THEN 1 ELSE 0)
    + Cardinality(mentionedEntries(f, a))

\* C29: a feature whose only contribution is one +10 is not returned; every
\* returned feature has a contribution of 25, 20 or 30 or at least two of 10;
\* every score is a multiple of 5.
C29_SingleTenNotRecommended ==
  result # NoValue =>
    /\ \A tf \in TypedFeatures :
         /\ scoreFeature(tf.feature, tf.type, analysis).score % 5 = 0
         /\ (~hasStrongSignal(tf.feature, tf.type, analysis)
               /\ tenContributions(tf.feature, tf.type, analysis) = 1)
              => /\ scoreFeature(tf.feature, tf.type, analysis).score = 10
                 /\ \A x \in Produced(result) : ~(x.type = tf.type /\ x.feature = tf.feature)
    /\ \A r \in Produced(result) :
         /\ r.score % 5 = 0
         /\ \/ hasStrongSignal(r.feature, r.type, analysis)
            \/ tenContributions(r.feature, r.type, analysis) >= 2

\* a feature with one +10 alone is left out while a feature with two is returned
C29_Witness ==
  /\ result # NoValue
  /\ \E tf \in TypedFeatures :
       /\ ~hasStrongSignal(tf.feature, tf.type, analysis)
       /\ tenContributions(tf.feature, tf.type, analysis) = 1
  /\ \E r \in Returned(result) :
       /\ ~hasStrongSignal(r.feature, r.type, analysis)
       /\ tenContributions(r.feature, r.type, analysis) >= 2

-----------------------------------------------------------------------------
(* C30: the priority signal looks at the id only                           *)

\* C30: a feature of any type gets the 30 points and the reason "Priority for
\* this task type" exactly when its id is one of the priority agents of the
\* analysis; features of different types with such an id all get them.
C30_PriorityByIdOnly ==
  result # NoValue =>
    \A tf \in TypedFeatures :
      \E s \in {scoreFeature(tf.feature, tf.type, analysis)} :
        /\ timesGiven(s.reasons, "Priority for this task type")
             = (IF tf.feature.id \in Range(analysis.priorityAgents) THEN 1 ELSE 0)
        /\ s.score - (keywordPoints(tf.feature, analysis)
                        + defaultPoints(tf.feature, tf.type, analysis)
                        + patternPoints(tf.type, analysis)
                        + mentionPoints(tf.feature, analysis))
             = (IF tf.feature.id \in Range(analysis.priorityAgents) THEN 30 ELSE 0)

\* an agent and a feature of another type share a priority id and both are
\* returned with the reason
C30_Witness ==
  /\ result # NoValue
  /\ \E r1 \in Returned(result) : \E r2 \in Returned(result) :
       /\ r1.type = "agent"
       /\ r2.type # "agent"
       /\ r1.feature.id = r2.feature.id
       /\ r1.feature.id \in Range(analysis.priorityAgents)
       /\ "Priority for this task type" \in Range(r1.matchReasons)
       /\ "Priority for this task type" \in Range(r2.matchReasons)
       /\ r2.score = 30

====
